---- MODULE Spec2Model ----
(***************************************************************************)
(* Model of the wireless troubleshooting decision engine of                *)
(* src/src/troubleshooting/mist_wireless.py (MistWirelessTroubleshooter).  *)
(*                                                                         *)
(* Conventions                                                             *)
(*  - A Python value that may be missing (dict.get returning None) is a    *)
(*    sequence of length 0 or 1: None == <<>>, Some(v) == <<v>>.           *)
(*  - A Python truthiness test `if x` on such a value is Truthy(x): the    *)
(*    value is present and is not 0.                                       *)
(*  - Numbers are integers; a rate is kept as an exact fraction.           *)
(***************************************************************************)
EXTENDS Integers, Sequences, FiniteSets

VARIABLES
    \* one run of troubleshoot_client(client_ip, client_mac, hours_back)
    pc,              \* position of the run
    client_ip,       \* argument: "unknown" or an address
    client_mac,      \* argument: the MAC searched for
    sites,           \* get_client_info: the site list being searched (<<>> outside it)
    site_idx,        \* get_client_info: index of the site being queried (1 outside it)
    client_info,     \* None, or Some(record) returned by get_client_info
    events,          \* what get_client_events returned
    auth_issues,     \* what analyze_auth_issues returned
    dhcp_dns_issues, \* what analyze_dhcp_dns_issues returned
    health_issues,   \* what analyze_client_health returned
    all_issues,      \* health branch: Findings collected so far
    ping_issues,     \* health branch: what the ping check returned
    infra_issues,    \* what check_network_infrastructure returned
    disconnect_issues, \* health branch: what analyze_disconnection_patterns returned
    uptime_issues,   \* health branch: the Finding built from ap_uptime_info, if any
    ap_stats,        \* health branch: what get_ap_stats returned, if it was called
    live_site,       \* index of the site whose live list held the client, 0 if none did
    results,         \* the report under construction
    exc,             \* TRUE once the outermost except clause has run
    calls,           \* log of fetches, probes and analyzers invoked, in order
    last_fault,      \* None, or Some(the latest fetch the Gateway failed, and how)
    \* the analyzers on their own
    m_pc,        \* position of the analyzer harness: "input", "health", "health2",
                 \* "ping", "disconnect"
    m_client,    \* client record handed to analyze_client_health
    m_ip,        \* client_ip handed to check_client_connectivity_ping
    m_probe,     \* outcome of subprocess.run(ping ...) seen by the ping check
    m_health,    \* result of analyze_client_health(m_client)
    m_health2,   \* result of a second call on the same record
    m_ping,      \* result of check_client_connectivity_ping(m_ip)
    m_recent,    \* answer of the 5-minute events fetch seen by the disconnection analyzer
    m_disc,      \* result of analyze_disconnection_patterns on m_recent
    \* one invocation of the troubleshoot command (cmd_troubleshoot_wireless)
    c_pc,        \* position: "off", "args", "auth", "org", "run", "exit"
    c_args,      \* the parsed arguments and what the environment holds
    c_mac,       \* client_mac after normalization
    c_ip,        \* args.client_ip after defaulting
    c_log,       \* what the command has printed and invoked so far
    c_match,     \* whether the live-client comparison matched the listed MAC
    c_status,    \* status of the report troubleshoot_client returned, "none" before
    c_exit,      \* the exit code returned, -1 before
    \* one MistAuth object and one MistNetworkClient built on it
    a_pc,        \* MistAuth: "off", "new", "validate", "ready", "block", "left", "failed"
    a_in,        \* the constructor's token argument, the environment, who constructs
    a_session,   \* self.session: "none", "open", "closed"
    a_closes,    \* who has called session.close(), in order
    a_sent,      \* the requests sent to the Gateway, in order
    a_last,      \* the latest operation on the MistAuth, what it was given, its outcome
    k_pc,        \* MistNetworkClient: "off", "new", "ready", "block", "left", "failed"
    k_owns,      \* self._owns_auth
    k_last,      \* the latest health_check: what the Gateway answered, its outcome
    t_pc,        \* MistWirelessTroubleshooter as a context manager: "off", "new",
                 \* "ready", "block", "left", "failed"
    \* the rate-limit bookkeeping of a MistAuth
    rate_limit_remaining,   \* self.rate_limit_remaining: None or Some(number)
    rate_limit_reset,       \* self.rate_limit_reset: None or Some(time)
    now,                    \* the clock
    r_last,      \* the latest make_request: whether it slept before sending, and the
                 \* rate-limit headers of the response that came before it
    \* two runs in flight on one troubleshooter
    turn,        \* 0 when runs are not interleaved, else which run is executing: 1 or 2
    parked,      \* the local variables of the run that is not executing
    switches     \* how many times execution has passed from one run to the other

mvars == <<m_pc, m_client, m_ip, m_probe, m_health, m_health2, m_ping,
           m_recent, m_disc>>

lvars == <<rate_limit_remaining, rate_limit_reset, now, r_last>>

avars == <<a_pc, a_in, a_session, a_closes, a_sent, a_last, k_pc, k_owns, k_last,
           t_pc, lvars>>

cvars == <<c_pc, c_args, c_mac, c_ip, c_log, c_match, c_status, c_exit>>

\* what the later analyzers returned, each on its own, and where the client
\* was found
hvars == <<infra_issues, disconnect_issues, uptime_issues, ap_stats, live_site>>

rvars == <<pc, client_ip, client_mac, sites, site_idx, client_info, events,
           auth_issues, dhcp_dns_issues, health_issues, all_issues, ping_issues,
           infra_issues, disconnect_issues, uptime_issues, ap_stats, live_site,
           results, exc, calls, last_fault>>

pvars == <<turn, parked, switches>>

vars == <<rvars, mvars, cvars, avars, pvars>>

----------------------------------------------------------------------------
(* Bounds of the model *)

MaxRssiDrop == 90      \* rssi ranges over -MaxRssiDrop .. 0
MaxSnr == 30           \* snr ranges over -2 .. MaxSnr
MaxPkts == 10          \* tx_pkts, rx_pkts range over 0 .. MaxPkts
MaxRetries == 3        \* tx_retries, rx_retries range over 0 .. MaxRetries
MaxLatency == 210      \* latency_ms and the ping average range over 0 .. MaxLatency
MaxLoss == 100         \* reported loss percentage ranges over 0 .. MaxLoss
MaxSites == 2          \* the organization has at most MaxSites sites
MaxEvents == 2         \* the look-back window holds at most MaxEvents events
MaxRecent == 8         \* the 5-minute window holds at most MaxRecent disconnect events

----------------------------------------------------------------------------
(* Thresholds of the program *)

RSSI_GOOD == -67
RSSI_POOR == -70
RSSI_HIGH == -80
SNR_POOR == 15
SNR_HIGH == 10
RETRY_CONCERN == 10
RETRY_HIGH == 20
LATENCY_POOR == 100
LATENCY_HIGH == 200
LOSS_POOR == 5
LOSS_HIGH == 15

----------------------------------------------------------------------------
(* Optional values and truthiness *)

None == <<>>
Some(v) == <<v>>
Truthy(o) == o # <<>> /\ o[1] # 0
GetOr(o, d) == IF o = <<>> THEN d ELSE o[1]
Opt(S) == {None} \cup {Some(v) : v \in S}

----------------------------------------------------------------------------
(* Text.  A string is a sequence of fragments; a fragment is a word with   *)
(* its letter case.  lower() folds the case, `kw in s` looks for the       *)
(* lower-case word kw among the fragments of s.                            *)

Lo(w) == [w |-> w, up |-> FALSE]
Up(w) == [w |-> w, up |-> TRUE]
lower(s) == [i \in DOMAIN s |-> [s[i] EXCEPT !.up = FALSE]]
Contains(s, kw) == \E i \in DOMAIN s : s[i] = Lo(kw)

----------------------------------------------------------------------------
(* Findings.  Every issue dict of the program is a record                  *)
(*   kind      which analyzer built it (the shape of the dict)             *)
(*   metric    its 'metric' or 'component' entry, "" when it has neither   *)
(*   value     the numbers it reports                                      *)
(*   severity  its 'severity' entry, "absent" when it has none             *)
(*   ev        the timestamp of the event it was built from, 0 otherwise   *)

Finding(m, v, s) ==
    [kind |-> "metric", metric |-> m, value |-> v, severity |-> s, ev |-> 0]

----------------------------------------------------------------------------
(* analyze_client_health *)

EmptyClient ==
    [rssi |-> None, snr |-> None, tx_retries |-> None, rx_retries |-> None,
     tx_pkts |-> None, rx_pkts |-> None, latency_ms |-> None,
     ap_mac |-> None, ap_id |-> None, ap_name |-> None, site_id |-> None,
     mac |-> None]

\* RetryRate without the guard on an empty packet count
RetryRate_Unguarded(retries, pkts) == <<retries * 100, pkts>>

\* retries / pkts * 100, kept as the exact fraction <<numerator, denominator>>
RetryRate(retries, pkts) ==
    IF pkts > 0 THEN <<retries * 100, pkts>> ELSE <<0, 1>>

\* rate > t for a rate <<n, d>> with d > 0
RateAbove(rate, t) == rate[1] > t * rate[2]

\* RssiCheck with the boundary value -70 flagged too
RssiCheck_Inclusive(ci) ==
    LET rssi == ci.rssi IN
    IF Truthy(rssi) /\ rssi[1] <= RSSI_POOR
    THEN <<Finding("RSSI", <<rssi[1]>>,
                   IF rssi[1] < RSSI_HIGH THEN "HIGH" ELSE "MEDIUM")>>
    ELSE <<>>

RssiCheck(ci) ==
    LET rssi == ci.rssi IN
    IF Truthy(rssi) /\ rssi[1] < RSSI_POOR
    THEN <<Finding("RSSI", <<rssi[1]>>,
                   IF rssi[1] < RSSI_HIGH THEN "HIGH" ELSE "MEDIUM")>>
    ELSE <<>>

SnrCheck(ci) ==
    LET snr == ci.snr IN
    IF Truthy(snr) /\ snr[1] < SNR_POOR
    THEN <<Finding("SNR", <<snr[1]>>,
                   IF snr[1] < SNR_HIGH THEN "HIGH" ELSE "MEDIUM")>>
    ELSE <<>>

RetryCheck(ci) ==
    LET tx_retries == GetOr(ci.tx_retries, 0)
        rx_retries == GetOr(ci.rx_retries, 0)
        tx_pkts == GetOr(ci.tx_pkts, 0)
        rx_pkts == GetOr(ci.rx_pkts, 0)
        tx_retry_rate == RetryRate(tx_retries, tx_pkts)
        rx_retry_rate == RetryRate(rx_retries, rx_pkts)
    IN
    IF RateAbove(tx_retry_rate, RETRY_CONCERN) \/ RateAbove(rx_retry_rate, RETRY_CONCERN)
    THEN <<Finding("Retries", <<tx_retries, tx_pkts, rx_retries, rx_pkts>>,
                   IF RateAbove(tx_retry_rate, RETRY_HIGH)
                      \/ RateAbove(rx_retry_rate, RETRY_HIGH)
                   THEN "HIGH" ELSE "MEDIUM")>>
    ELSE <<>>

\* LatencyCheck with the severity boundary 200 classified MEDIUM
LatencyCheck_LateHigh(ci) ==
    LET latency == ci.latency_ms IN
    IF Truthy(latency) /\ latency[1] > LATENCY_POOR
    THEN <<Finding("Latency", <<latency[1]>>,
                   IF latency[1] <= LATENCY_HIGH THEN "MEDIUM" ELSE "HIGH")>>
    ELSE <<>>

LatencyCheck(ci) ==
    LET latency == ci.latency_ms IN
    IF Truthy(latency) /\ latency[1] > LATENCY_POOR
    THEN <<Finding("Latency", <<latency[1]>>,
                   IF latency[1] < LATENCY_HIGH THEN "MEDIUM" ELSE "HIGH")>>
    ELSE <<>>

analyze_client_health(ci) ==
    IF ci = EmptyClient
    THEN <<>>
    ELSE RssiCheck(ci) \o SnrCheck(ci) \o RetryCheck(ci) \o LatencyCheck(ci)

----------------------------------------------------------------------------
(* check_client_connectivity_ping                                          *)
(*                                                                         *)
(* The probe is subprocess.run(['ping', ...]).  Its outcome is either an   *)
(* exception (raised |-> TRUE) or a return code with the text of stdout.   *)
(* stdout is kept as the two lines the parser looks at:                    *)
(*   loss_fmt "int"      "... 10% packet loss" / "(10% loss)", p = loss    *)
(*            "decimal"  "... 10.0% packet loss": digits, '.', digits, '%' *)
(*            "none"     no loss line                                      *)
(*   avg_fmt  "plain"    "avg = 12.3 ms"                                   *)
(*            "unix"     "rtt min/avg/max/mdev = a/b/c/d ms"               *)
(*            "windows"  "Minimum = 1ms, Maximum = 2ms, Average = 1ms"     *)
(*            "none"     no statistics line                                *)
(***************************************************************************)

UNKNOWN_IP == "unknown"

\* re.search(r'(\d+)%.*loss', stdout): the digits directly before '%'
ParseLoss(out) ==
    CASE out.loss_fmt = "int" -> Some(out.loss)
      [] out.loss_fmt = "decimal" -> Some(out.loss_frac)
      [] OTHER -> None

\* re.search(r'avg[^=]*=\s*(\d+(?:\.\d+)?)\s*ms', stdout): "avg", then up to
\* the first '=', then a number directly followed by "ms"
ParseAvgLatency(out) ==
    IF out.avg_fmt = "plain" THEN Some(out.avg) ELSE None

PacketLossCheck(out) ==
    LET loss_match == ParseLoss(out) IN
    IF loss_match # None /\ loss_match[1] > LOSS_POOR
    THEN <<Finding("Packet Loss", <<loss_match[1]>>,
                   IF loss_match[1] > LOSS_HIGH THEN "HIGH" ELSE "MEDIUM")>>
    ELSE <<>>

AvgLatencyCheck(out) ==
    LET latency_match == ParseAvgLatency(out) IN
    IF latency_match # None /\ latency_match[1] > LATENCY_POOR
    THEN <<Finding("Average Latency", <<latency_match[1]>>,
                   IF latency_match[1] < LATENCY_HIGH THEN "MEDIUM" ELSE "HIGH")>>
    ELSE <<>>

check_client_connectivity_ping(ip, probe) ==
    IF ip = UNKNOWN_IP
    THEN <<Finding("IP Address", <<>>, "MEDIUM")>>
    ELSE IF probe.raised
    THEN <<Finding("Connectivity Test", <<>>, "MEDIUM")>>
    ELSE IF probe.returncode = 0
    THEN PacketLossCheck(probe.out) \o AvgLatencyCheck(probe.out)
    ELSE <<>>

----------------------------------------------------------------------------
(* The troubleshoot command when it is not running *)

NoArgs == [token |-> FALSE, mac |-> <<>>, ip |-> FALSE, org |-> FALSE,
           digits |-> <<>>, listed |-> <<>>, listed_digits |-> <<>>]

CliOff ==
    /\ c_pc = "off"
    /\ c_args = NoArgs
    /\ c_mac = <<>>
    /\ c_ip = ""
    /\ c_log = <<>>
    /\ c_match = FALSE
    /\ c_status = "none"
    /\ c_exit = -1

\* the MistAuth and the MistNetworkClient before they exist
NoOp == [op |-> "none", given |-> "none", result |-> [kind |-> "none"]]

NoHeader == [form |-> "none", n |-> 0]

NoDelay == [delayed |-> FALSE, remaining |-> NoHeader, reset_ahead |-> FALSE,
            got |-> NoHeader]

\* no second run
NoRun == [pc |-> "off"]

PairOff ==
    /\ turn = 0
    /\ parked = NoRun
    /\ switches = 0

\* a MistAuth before its first response
RateOff ==
    /\ rate_limit_remaining = None
    /\ rate_limit_reset = None
    /\ now = 0
    /\ r_last = NoDelay

AuthOff ==
    /\ t_pc = "off"
    /\ RateOff
    /\ a_pc = "off"
    /\ a_in = [arg |-> "absent", env |-> "absent", by |-> "caller"]
    /\ a_session = "none"
    /\ a_closes = <<>>
    /\ a_sent = <<>>
    /\ a_last = NoOp
    /\ k_pc = "off"
    /\ k_owns = FALSE
    /\ k_last = NoOp

----------------------------------------------------------------------------
(* MAC addresses: twelve hex digits, a separator style and a letter case *)

Mac(h, sep, up) == [hex |-> h, sep |-> sep, up |-> up]

\* mac.lower().replace(':', '').replace('-', '')
NormMac(m) == [m EXCEPT !.sep = "", !.up = FALSE]

----------------------------------------------------------------------------
(* Events and the event analyzers *)

Event(ts, type, text) == [timestamp |-> ts, type |-> type, text |-> text]

AUTH_KEYWORDS ==
    {"auth_failed", "assoc_failed", "eap_failure",
     "radius_failure", "802_1x_failure", "psk_failure"}

DHCP_DNS_KEYWORDS ==
    {"dhcp_failure", "dhcp_timeout", "no_dhcp_response",
     "dns_failure", "dns_timeout", "ip_conflict"}

\* the test of analyze_auth_issues, looking at the free text as well
IsAuthFailure_TypeOrText(event) ==
    LET event_type == lower(event.type)
        event_text == lower(event.text)
    IN \E failure_type \in AUTH_KEYWORDS :
            Contains(event_type, failure_type) \/ Contains(event_text, failure_type)

IsAuthFailure(event) ==
    LET event_type == lower(event.type) IN
    \E failure_type \in AUTH_KEYWORDS : Contains(event_type, failure_type)

IsDhcpDnsIssue(event) ==
    LET event_type == lower(event.type)
        event_text == lower(event.text)
    IN \E issue \in DHCP_DNS_KEYWORDS :
            Contains(event_type, issue) \/ Contains(event_text, issue)

AuthFinding(event) ==
    [kind |-> "auth", metric |-> "", value |-> <<>>, severity |-> "absent",
     ev |-> event.timestamp]

DhcpDnsFinding(event) ==
    [kind |-> "dhcp_dns", metric |-> "", value |-> <<>>, severity |-> "absent",
     ev |-> event.timestamp]

analyze_auth_issues(evs) ==
    LET failed == SelectSeq(evs, IsAuthFailure)
    IN [i \in 1 .. Len(failed) |-> AuthFinding(failed[i])]

analyze_dhcp_dns_issues(evs) ==
    LET hit == SelectSeq(evs, IsDhcpDnsIssue)
    IN [i \in 1 .. Len(hit) |-> DhcpDnsFinding(hit[i])]

\* events.get('results', []) if events else []
EventList(resp) ==
    IF resp.kind = "dict" /\ resp.has_results THEN resp.results ELSE <<>>

----------------------------------------------------------------------------
(* analyze_disconnection_patterns, on the response of the 5-minute fetch *)

DISCONNECT_THRESHOLD == 7

IsDisconnect(event) ==
    LET event_type == lower(event.type) IN
    Contains(event_type, "disconnect") \/ Contains(event_type, "disassoc")

\* analyze_disconnection_patterns firing only above the threshold
analyze_disconnection_patterns_Above(resp) ==
    LET evs == EventList(resp)
        disconnect_count == Cardinality({i \in 1 .. Len(evs) : IsDisconnect(evs[i])})
    IN
    IF evs # <<>> /\ disconnect_count > DISCONNECT_THRESHOLD
    THEN <<Finding("Disconnection Pattern", <<disconnect_count>>, "HIGH")>>
    ELSE <<>>

analyze_disconnection_patterns(resp) ==
    LET evs == EventList(resp)
        disconnect_count == Cardinality({i \in 1 .. Len(evs) : IsDisconnect(evs[i])})
    IN
    IF evs # <<>> /\ disconnect_count >= DISCONNECT_THRESHOLD
    THEN <<Finding("Disconnection Pattern", <<disconnect_count>>, "HIGH")>>
    ELSE <<>>

----------------------------------------------------------------------------
(* check_ap_uptime, on the response of the AP statistics fetch *)

SECONDS_PER_HOUR == 3600
UPTIME_MIN_HOURS == 1
UPTIME_MAX_HOURS == 720

\* None, or Some(needs_reboot)
check_ap_uptime(resp) ==
    IF resp.kind # "dict" \/ ~Truthy(resp.uptime)
    THEN None
    ELSE LET uptime == resp.uptime[1] IN
         Some(uptime > UPTIME_MAX_HOURS * SECONDS_PER_HOUR
              \/ uptime < UPTIME_MIN_HOURS * SECONDS_PER_HOUR)

ApUptimeCheck(resp) ==
    LET ap_uptime_info == check_ap_uptime(resp) IN
    IF ap_uptime_info # None /\ ap_uptime_info[1]
    THEN <<Finding("AP Uptime", <<resp.uptime[1]>>, "MEDIUM")>>
    ELSE <<>>

----------------------------------------------------------------------------
(* check_network_infrastructure, on the outcomes of its probes             *)
(*   dns_failures  how many of the test domains raised socket.gaierror     *)
(*   dns_raised    the resolution loop raised some other exception         *)
(*   wan           "ok" (status 200), "status" (another status),           *)
(*                 "unreachable" (requests.RequestException)               *)
(*   gateway       "ok" (return code 0), "fail" (another return code),     *)
(*                 "raised" (the gateway could not be derived or pinged)   *)

NUM_TEST_DOMAINS == 3

InfraFinding(component, sev) ==
    [kind |-> "infra", metric |-> component, value |-> <<>>, severity |-> sev,
     ev |-> 0]

DnsCheck(probe) ==
    IF probe.dns_raised
    THEN <<InfraFinding("DNS", "MEDIUM")>>
    ELSE IF 2 * probe.dns_failures > NUM_TEST_DOMAINS
    THEN <<InfraFinding("DNS", "HIGH")>>
    ELSE <<>>

WanCheck(probe) ==
    IF probe.wan = "ok" THEN <<>> ELSE <<InfraFinding("WAN", "HIGH")>>

GatewayPings(ip) == ip # UNKNOWN_IP

GatewayCheck(ip, probe) ==
    IF GatewayPings(ip) /\ probe.gateway = "fail"
    THEN <<InfraFinding("LAN", "HIGH")>>
    ELSE <<>>

check_network_infrastructure(ip, probe) ==
    DnsCheck(probe) \o WanCheck(probe) \o GatewayCheck(ip, probe)

----------------------------------------------------------------------------
(* Inputs of the analyzers *)

KNOWN_IP == "10.0.0.5"

LossLines(S) ==
    {[loss_fmt |-> "none", loss |-> 0, loss_frac |-> 0]}
    \cup {[loss_fmt |-> "int", loss |-> p, loss_frac |-> 0] : p \in S}
    \cup {[loss_fmt |-> "decimal", loss |-> p, loss_frac |-> f] : p \in S, f \in {0, 5}}

AvgLines(S) ==
    {[avg_fmt |-> "none", avg |-> 0]}
    \cup {[avg_fmt |-> f, avg |-> a] : f \in {"plain", "unix", "windows"}, a \in S}

Stdout(l, a) ==
    [loss_fmt |-> l.loss_fmt, loss |-> l.loss, loss_frac |-> l.loss_frac,
     avg_fmt |-> a.avg_fmt, avg |-> a.avg]

NoOutput == Stdout([loss_fmt |-> "none", loss |-> 0, loss_frac |-> 0],
                   [avg_fmt |-> "none", avg |-> 0])

ProbeRaised == [raised |-> TRUE, returncode |-> 0, out |-> NoOutput]

\* ping exits 0 when replies came back; it exits 1 when none did (the
\* statistics then report the full loss and no round-trip line) and 2 on an
\* error before any statistics are printed
Probes(LS, AS) ==
    {ProbeRaised}
    \cup {[raised |-> FALSE, returncode |-> 0, out |-> Stdout(l, a)] :
            l \in LossLines(LS), a \in AvgLines(AS)}
    \cup {[raised |-> FALSE, returncode |-> 1, out |-> Stdout(l, [avg_fmt |-> "none", avg |-> 0])] :
            l \in LossLines({100})}
    \cup {[raised |-> FALSE, returncode |-> 2, out |-> NoOutput]}

----------------------------------------------------------------------------
(* Inputs of a run: what the Gateway and the probes may answer *)

HEX_A == "aabbccddeeff"
HEX_B == "112233445566"

Sample(rssi, snr, txr, txp, ap_mac, ap_id) ==
    [EmptyClient EXCEPT !.rssi = rssi, !.snr = snr,
                        !.tx_retries = txr, !.tx_pkts = txp,
                        !.ap_mac = ap_mac, !.ap_id = ap_id]

AP_MAC == Some(Mac("5c5b35000001", ":", FALSE))
AP_ID == Some("00000000-0000-0000-1000-5c5b35000001")

\* the records the Gateway may hold for the client, before 'mac' is filled in
SampleClients ==
    { Sample(Some(-60), Some(30), Some(0), Some(10), AP_MAC, AP_ID),
      Sample(Some(-75), Some(22), Some(0), Some(10), AP_MAC, AP_ID),
      Sample(Some(-75), Some(22), None, None, AP_MAC, None),
      Sample(Some(-85), Some(5), Some(3), Some(10), None, None),
      Sample(None, None, None, None, None, None) }

SampleEvents ==
    { Event(1, <<Lo("eap_failure")>>, <<>>),
      Event(2, <<Up("client_"), Up("psk_failure")>>, <<Lo("bad key")>>),
      Event(3, <<Lo("dhcp_timeout")>>, <<>>),
      Event(4, <<Lo("info")>>, <<Lo("lookup: "), Up("dns_failure")>>),
      Event(5, <<Lo("info")>>, <<Lo("eap_failure")>>),
      Event(6, <<Lo("client_"), Lo("disconnect")>>, <<>>),
      Event(7, <<>>, <<>>) }

\* the events of a window come in time order, each at most once
EventLists ==
    {es \in UNION {[1 .. n -> SampleEvents] : n \in 0 .. MaxEvents} :
        \A i, j \in 1 .. Len(es) : i < j => es[i].timestamp < es[j].timestamp}

NoEvents == [kind |-> "none", has_results |-> FALSE, results |-> <<>>]

EventsResponses ==
    {NoEvents, [kind |-> "dict", has_results |-> FALSE, results |-> <<>>]}
    \cup {[kind |-> "dict", has_results |-> TRUE, results |-> es] : es \in EventLists}

\* the 5-minute window: n disconnect events of one spelling, then m others
RecentList(n, t, m) ==
    [i \in 1 .. (n + m) |->
        IF i <= n THEN Event(i, t, <<>>) ELSE Event(i, <<Lo("roam")>>, <<Lo("disconnect")>>)]

RecentResponses ==
    {NoEvents, [kind |-> "dict", has_results |-> FALSE, results |-> <<>>]}
    \cup {[kind |-> "dict", has_results |-> TRUE, results |-> RecentList(n, t, m)] :
            n \in 0 .. MaxRecent, m \in {0, 1},
            t \in {<<Lo("client_"), Lo("disconnect")>>, <<Up("disassoc")>>}}

SampleProbes == Probes({0, 10}, {150})

NoStats == [kind |-> "none", uptime |-> None]

\* uptimes, in seconds, around the two limits
UptimesSeen == {0, 1800, 3600, 86400, 2592000, 2592001}

ApStatsResponses ==
    {NoStats}
    \cup {[kind |-> "dict", uptime |-> u] :
            u \in Opt(UptimesSeen)}

InfraProbes ==
    [dns_failures : 0 .. 2, dns_raised : BOOLEAN,
     wan : {"ok", "status", "unreachable"}, gateway : {"ok", "fail", "raised"}]

\* a site of the organization: whether its record carries an id
SiteLists == UNION {[1 .. n -> [has_id : BOOLEAN]] : n \in 0 .. MaxSites}

\* the MACs a site's client list may hold
ListedMacs ==
    {Mac(HEX_A, "", FALSE), Mac(HEX_A, "-", TRUE), Mac(HEX_B, ":", FALSE)}

----------------------------------------------------------------------------
(* The report *)

InitialResults ==
    [steps_completed |-> <<>>, issues_found |-> <<>>, recommendations |-> <<>>,
     escalation_path |-> "None", status |-> "unknown"]

NOT_FOUND_RECOMMENDATIONS ==
    <<"Verify client MAC address format",
      "Check if client is connected to this Mist organization",
      "Ensure API token has proper permissions">>

AUTH_RECOMMENDATIONS ==
    <<"Check RADIUS server connectivity",
      "Verify user credentials and certificates",
      "Review ISE authorization policies",
      "Check 802.1X supplicant configuration">>

INFRA_RECOMMENDATIONS ==
    <<"Check DHCP server configuration and availability",
      "Verify DHCP pool has available addresses",
      "Test DNS server connectivity and resolution",
      "Check LAN/WAN connectivity",
      "Verify VLAN configuration">>

ALL_GOOD_RECOMMENDATIONS ==
    <<"All automated checks look good; proceed with manual troubleshooting steps as needed.">>

HealthRecommendations(ci, pings) ==
    <<"Manual Troubleshooting Steps for Engineer:",
      "1. Perform LAN/WAN/DHCP/DNS checks based on client metrics",
      "2. Assess AP & Radio Performance (client load, channel utilization, noise)",
      "3. Evaluate AP Hardware health if needed",
      "4. Analyze full RF Environment for interference and coverage",
      "",
      "Use the following metrics for assessment:",
      "RSSI", "SNR", "TX Retry Rate", "RX Retry Rate">>
    \o [i \in 1 .. Len(SelectSeq(pings, LAMBDA f : f.metric = "Average Latency")) |-> "Latency"]
    \o <<"", "Suggested Actions Based on Metrics:">>
    \o (IF RssiCheck(ci) # <<>> THEN <<"Low RSSI">> ELSE <<>>)
    \o (IF SnrCheck(ci) # <<>> THEN <<"Low SNR">> ELSE <<>>)
    \o (IF RetryCheck(ci) # <<>> THEN <<"High Retries">> ELSE <<>>)

ErrorFinding ==
    [kind |-> "error", metric |-> "", value |-> <<>>, severity |-> "absent", ev |-> 0]

----------------------------------------------------------------------------
(* One run of troubleshoot_client.  Each action is the code from one call   *)
(* on the Gateway or a probe up to the next one; the answer is chosen by    *)
(* the environment.  A fetch through make_api_request answers with data,    *)
(* with None (MistAuthError caught) or by raising another exception, which *)
(* reaches the except clause of troubleshoot_client unless the caller      *)
(* catches it first.                                                       *)

Log(op) == calls' = Append(calls, op)

\* the ways the Gateway fails a single request: 401/403, 429, 404, no answer
GATEWAY_FAILURES == {"auth", "rate_limit", "not_found", "timeout"}

\* MistAuth.make_request: the decoded body, or the exception it raises.  A 429
\* raises MistRateLimitError inside the try block, and none of its except
\* clauses (HTTPError, Timeout, RequestException) catches that; raise_for_status
\* turns 401/403/404 into HTTPError, rewrapped as MistAuthError like a Timeout.
make_request(answer) ==
    CASE answer = "ok" -> "json"
      [] answer = "rate_limit" -> "MistRateLimitError"
      [] answer \in {"auth", "not_found"} -> "MistAuthError"
      [] answer = "timeout" -> "MistAuthError"

\* make_api_request: None on MistAuthError, any other exception propagates
make_api_request(answer) ==
    LET result == make_request(answer) IN
    IF result = "json" THEN "data"
    ELSE IF result = "MistAuthError" THEN "none"
    ELSE "raise"

\* the Gateway fails the fetch op in the way `kind`
Fault(op, kind) == last_fault' = Some([fetch |-> op, kind |-> kind])

\* Fail reporting the error without the exception's message
Fail_NoMessage ==
    /\ results' = [results EXCEPT !.status = "error"]
    /\ exc' = TRUE
    /\ pc' = "done"

\* except Exception as e: status 'error', the message appended to issues_found
Fail ==
    /\ results' = [results EXCEPT !.status = "error",
                                  !.issues_found = Append(@, ErrorFinding)]
    /\ exc' = TRUE
    /\ pc' = "done"

Init ==
    /\ pc = "sites"
    /\ client_ip \in {UNKNOWN_IP, KNOWN_IP}
    /\ client_mac = Mac(HEX_A, ":", FALSE)
    /\ sites = <<>>
    /\ site_idx = 1
    /\ client_info = None
    /\ events = NoEvents
    /\ auth_issues = <<>>
    /\ dhcp_dns_issues = <<>>
    /\ health_issues = <<>>
    /\ all_issues = <<>>
    /\ ping_issues = <<>>
    /\ infra_issues = <<>>
    /\ disconnect_issues = <<>>
    /\ uptime_issues = <<>>
    /\ ap_stats = None
    /\ live_site = 0
    /\ results = InitialResults
    /\ exc = FALSE
    /\ calls = <<>>
    /\ last_fault = None
    /\ m_pc = "off"
    /\ m_client = EmptyClient
    /\ m_ip = UNKNOWN_IP
    /\ m_probe = ProbeRaised
    /\ m_health = <<>>
    /\ m_health2 = <<>>
    /\ m_ping = <<>>
    /\ m_recent = NoEvents
    /\ m_disc = <<>>
    /\ CliOff
    /\ AuthOff
    /\ PairOff

\* AfterClientInfo returning the not-found report without a status
AfterClientInfo_NoStatus(ci) ==
    /\ client_info' = ci
    /\ sites' = <<>> /\ site_idx' = 1
    /\ IF ci = None \/ ci[1] = EmptyClient
       THEN /\ results' = [results EXCEPT !.recommendations = NOT_FOUND_RECOMMENDATIONS]
            /\ pc' = "done"
       ELSE /\ results' = [results EXCEPT !.steps_completed =
                                            Append(@, "client_association_check")]
            /\ pc' = "events"
    /\ exc' = exc

\* AfterClientInfo recording the association step before testing the record
AfterClientInfo_StepFirst(ci) ==
    /\ client_info' = ci
    /\ sites' = <<>> /\ site_idx' = 1     \* get_client_info has returned
    /\ IF ci = None \/ ci[1] = EmptyClient
       THEN /\ results' = [results EXCEPT !.status = "error",
                                          !.recommendations = NOT_FOUND_RECOMMENDATIONS,
                                          !.steps_completed =
                                            Append(@, "client_association_check")]
            /\ pc' = "done"
       ELSE /\ results' = [results EXCEPT !.steps_completed =
                                            Append(@, "client_association_check")]
            /\ pc' = "events"
    /\ exc' = exc

\* troubleshoot_client once get_client_info has returned ci (None or Some)
AfterClientInfo(ci) ==
    /\ client_info' = ci
    /\ sites' = <<>> /\ site_idx' = 1     \* get_client_info has returned
    /\ IF ci = None \/ ci[1] = EmptyClient
       THEN /\ results' = [results EXCEPT !.status = "error",
                                          !.recommendations = NOT_FOUND_RECOMMENDATIONS]
            /\ pc' = "done"
       ELSE /\ results' = [results EXCEPT !.steps_completed =
                                            Append(@, "client_association_check")]
            /\ pc' = "events"
    /\ exc' = exc

\* the first site at or after index i whose record carries an id, 0 if none
NextSite(list, i) ==
    LET with_id == {j \in i .. Len(list) : list[j].has_id}
    IN IF with_id = {} THEN 0
       ELSE CHOOSE j \in with_id : \A k \in with_id : j <= k

\* a for-loop that goes back to the first site after every site
SearchFrom_Again(list, i) ==
    /\ sites' = list
    /\ IF NextSite(list, 1) = 0
       THEN pc' = "historical" /\ site_idx' = Len(list) + 1
       ELSE pc' = "site_clients" /\ site_idx' = NextSite(list, 1)

\* the for-loop over sites, entered at index i with the site list `list`
SearchFrom(list, i) ==
    /\ sites' = list
    /\ IF NextSite(list, i) = 0
       THEN pc' = "historical" /\ site_idx' = Len(list) + 1
       ELSE pc' = "site_clients" /\ site_idx' = NextSite(list, i)

\* get_client_info: GET /orgs/{org_id}/sites
GetSites ==
    /\ pc = "sites"
    /\ Log("GET sites")
    /\ \/ \E kind \in GATEWAY_FAILURES :
            /\ Fault("GET sites", kind)
            /\ IF make_api_request(kind) = "raise"
               THEN Fail /\ UNCHANGED <<sites, site_idx, client_info>>
               ELSE /\ SearchFrom(<<>>, 1)       \* None skips the loop
                    /\ UNCHANGED <<client_info, results, exc>>
       \/ \E list \in SiteLists :
            /\ SearchFrom(list, 1)
            /\ UNCHANGED <<client_info, results, exc, last_fault>>
    /\ UNCHANGED <<client_ip, client_mac, events, auth_issues, dhcp_dns_issues,
                   health_issues, all_issues, ping_issues, infra_issues,
                   disconnect_issues, uptime_issues, ap_stats, live_site, mvars, cvars, avars, pvars>>

ListedClients ==
    {[c EXCEPT !.mac = Some(m)] : c \in SampleClients, m \in ListedMacs}

ClientLists == UNION {[1 .. n -> ListedClients] : n \in 0 .. 2}

\* the first client of the list whose normalized MAC equals the one searched
FirstMatch(list, mac) ==
    LET hits == {i \in 1 .. Len(list) : NormMac(list[i].mac[1]) = NormMac(mac)}
    IN IF hits = {} THEN None
       ELSE Some(list[CHOOSE i \in hits : \A k \in hits : i <= k])

\* get_client_info: GET /sites/{site_id}/stats/clients for the site at site_idx
GetSiteClients ==
    /\ pc = "site_clients"
    /\ Log("GET site clients")
    /\ \/ \E kind \in GATEWAY_FAILURES :
            /\ Fault("GET site clients", kind)
            /\ UNCHANGED live_site
            /\ IF make_api_request(kind) = "raise"
               THEN Fail /\ UNCHANGED <<sites, site_idx, client_info>>
               ELSE /\ SearchFrom(sites, site_idx + 1)   \* None: on to the next site
                    /\ UNCHANGED <<client_info, results, exc>>
       \/ \E list \in ClientLists :
            /\ UNCHANGED last_fault
            /\ LET hit == FirstMatch(list, client_mac) IN
               IF hit = None
               THEN /\ SearchFrom(sites, site_idx + 1)
                    /\ UNCHANGED <<client_info, results, exc, live_site>>
               ELSE LET client == [hit[1] EXCEPT !.site_id = Some(site_idx)] IN
                    /\ live_site' = site_idx
                    /\ IF client.ap_mac # None
                       THEN /\ client_info' = Some(client)
                            /\ pc' = "ap_name"
                            /\ UNCHANGED <<sites, site_idx, results, exc>>
                       ELSE AfterClientInfo(Some(client))
    /\ UNCHANGED <<client_ip, client_mac, events, auth_issues, dhcp_dns_issues,
                   health_issues, all_issues, ping_issues, infra_issues,
                   disconnect_issues, uptime_issues, ap_stats, mvars, cvars, avars, pvars>>

Device(mac, type, name) == [mac |-> mac, type |-> type, name |-> name]

SampleDevices ==
    { Device(Mac("5c5b35000001", "-", TRUE), "ap", "AP-1"),
      Device(Mac("5c5b35000001", ":", FALSE), "switch", "SW-1"),
      Device(Mac("5c5b35000002", ":", FALSE), "ap", "AP-2") }

DeviceLists == UNION {[1 .. n -> SampleDevices] : n \in 0 .. 2}

get_ap_name(devices, ap_mac) ==
    LET hits == {i \in 1 .. Len(devices) :
                    /\ NormMac(devices[i].mac) = NormMac(ap_mac)
                    /\ devices[i].type = "ap"}
    IN IF hits = {} THEN "Unknown"
       ELSE devices[CHOOSE i \in hits : \A k \in hits : i <= k].name

\* get_ap_name: GET /sites/{site_id}/devices; every exception is swallowed
GetApName ==
    /\ pc = "ap_name"
    /\ Log("GET devices")
    /\ \/ \E kind \in GATEWAY_FAILURES :  \* None or an exception: 'Unknown'
            /\ Fault("GET devices", kind)
            /\ AfterClientInfo(Some([client_info[1] EXCEPT !.ap_name = Some("Unknown")]))
       \/ \E devices \in DeviceLists :
            /\ UNCHANGED last_fault
            /\ AfterClientInfo(Some([client_info[1] EXCEPT
                    !.ap_name = Some(get_ap_name(devices, client_info[1].ap_mac[1]))]))
    /\ UNCHANGED <<client_ip, client_mac, events, auth_issues,
                   dhcp_dns_issues, health_issues, all_issues, ping_issues, hvars, mvars, cvars, avars, pvars>>

HistoricalRecords ==
    {EmptyClient}
    \cup {[c EXCEPT !.mac = Some(NormMac(client_mac)), !.site_id = sid] :
            c \in SampleClients, sid \in {None, Some(1)}}

\* get_client_info: GET /orgs/{org_id}/clients/search
GetHistorical ==
    /\ pc = "historical"
    /\ Log("GET clients search")
    /\ \/ \E kind \in GATEWAY_FAILURES :
            /\ Fault("GET clients search", kind)
            /\ IF make_api_request(kind) = "raise"
               THEN Fail /\ UNCHANGED <<sites, site_idx, client_info>>
               ELSE AfterClientInfo(None)
       \/ /\ AfterClientInfo(None)     \* no 'results', or an empty 'results'
          /\ UNCHANGED last_fault
       \/ \E rec \in HistoricalRecords :
            /\ AfterClientInfo(Some(rec))
            /\ UNCHANGED last_fault
    /\ UNCHANGED <<client_ip, client_mac, events, auth_issues,
                   dhcp_dns_issues, health_issues, all_issues, ping_issues, hvars, mvars, cvars, avars, pvars>>

\* get_client_events over the look-back window
GetEvents ==
    /\ pc = "events"
    /\ Log("GET events")
    /\ \/ \E kind \in GATEWAY_FAILURES :
            /\ Fault("GET events", kind)
            /\ IF make_api_request(kind) = "raise"
               THEN Fail /\ UNCHANGED events
               ELSE /\ events' = NoEvents
                    /\ pc' = "auth"
                    /\ UNCHANGED <<results, exc>>
       \/ /\ events' \in EventsResponses \ {NoEvents}
          /\ pc' = "auth"
          /\ UNCHANGED <<results, exc, last_fault>>
    /\ UNCHANGED <<client_ip, client_mac, sites, site_idx, client_info, auth_issues,
                   dhcp_dns_issues, health_issues, all_issues, ping_issues, hvars, mvars, cvars, avars, pvars>>

\* AuthStage that also runs the DHCP/DNS analyzer before it returns
AuthStage_LateReturn ==
    /\ pc = "auth"
    /\ calls' = calls \o <<"analyze_auth_issues", "analyze_dhcp_dns_issues">>
    /\ auth_issues' = analyze_auth_issues(EventList(events))
    /\ IF auth_issues' # <<>>
       THEN /\ results' = [results EXCEPT
                    !.status = "authentication_issues",
                    !.escalation_path = "troubleshoot_on_ise",
                    !.issues_found = @ \o auth_issues',
                    !.recommendations = AUTH_RECOMMENDATIONS,
                    !.steps_completed = Append(@, "authentication_check")]
            /\ pc' = "done"
       ELSE /\ results' = [results EXCEPT
                    !.steps_completed = Append(@, "authentication_check")]
            /\ pc' = "dhcp"
    /\ UNCHANGED <<client_ip, client_mac, sites, site_idx, client_info, events,
                   dhcp_dns_issues, health_issues, all_issues, ping_issues, exc, last_fault, hvars, mvars, cvars, avars, pvars>>

\* AuthStage without the return that ends the run on authentication issues
AuthStage_FallThrough ==
    /\ pc = "auth"
    /\ Log("analyze_auth_issues")
    /\ auth_issues' = analyze_auth_issues(EventList(events))
    /\ IF auth_issues' # <<>>
       THEN results' = [results EXCEPT
                    !.status = "authentication_issues",
                    !.escalation_path = "troubleshoot_on_ise",
                    !.issues_found = @ \o auth_issues',
                    !.recommendations = AUTH_RECOMMENDATIONS,
                    !.steps_completed = Append(@, "authentication_check")]
       ELSE results' = [results EXCEPT
                    !.steps_completed = Append(@, "authentication_check")]
    /\ pc' = "dhcp"
    /\ UNCHANGED <<client_ip, client_mac, sites, site_idx, client_info, events,
                   dhcp_dns_issues, health_issues, all_issues, ping_issues, exc, last_fault, hvars, mvars, cvars, avars, pvars>>

\* STEP 2
AuthStage ==
    /\ pc = "auth"
    /\ Log("analyze_auth_issues")
    /\ auth_issues' = analyze_auth_issues(EventList(events))
    /\ IF auth_issues' # <<>>
       THEN /\ results' = [results EXCEPT
                    !.status = "authentication_issues",
                    !.escalation_path = "troubleshoot_on_ise",
                    !.issues_found = @ \o auth_issues',
                    !.recommendations = AUTH_RECOMMENDATIONS,
                    !.steps_completed = Append(@, "authentication_check")]
            /\ pc' = "done"
       ELSE /\ results' = [results EXCEPT
                    !.steps_completed = Append(@, "authentication_check")]
            /\ pc' = "dhcp"
    /\ UNCHANGED <<client_ip, client_mac, sites, site_idx, client_info, events,
                   dhcp_dns_issues, health_issues, all_issues, ping_issues, exc, last_fault, hvars, mvars, cvars, avars, pvars>>

\* DhcpDnsStage that never takes the infrastructure branch
DhcpDnsStage_Skip ==
    /\ pc = "dhcp"
    /\ Log("analyze_dhcp_dns_issues")
    /\ dhcp_dns_issues' = analyze_dhcp_dns_issues(EventList(events))
    /\ results' = [results EXCEPT !.steps_completed = Append(@, "dhcp_dns_check")]
    /\ pc' = "health"
    /\ UNCHANGED <<client_ip, client_mac, sites, site_idx, client_info, events,
                   auth_issues, health_issues, all_issues, ping_issues, exc, last_fault, hvars, mvars, cvars, avars, pvars>>

\* STEP 3
DhcpDnsStage ==
    /\ pc = "dhcp"
    /\ Log("analyze_dhcp_dns_issues")
    /\ dhcp_dns_issues' = analyze_dhcp_dns_issues(EventList(events))
    /\ IF dhcp_dns_issues' # <<>>
       THEN /\ pc' = "infra"
            /\ UNCHANGED results
       ELSE /\ results' = [results EXCEPT
                    !.steps_completed = Append(@, "dhcp_dns_check")]
            /\ pc' = "health"
    /\ UNCHANGED <<client_ip, client_mac, sites, site_idx, client_info, events,
                   auth_issues, health_issues, all_issues, ping_issues, exc, last_fault, hvars, mvars, cvars, avars, pvars>>

\* STEP 3a
InfraStage ==
    /\ pc = "infra"
    /\ calls' = calls \o <<"check_network_infrastructure">>
                      \o (IF GatewayPings(client_ip) THEN <<"ping gateway">> ELSE <<>>)
    /\ \E probe \in InfraProbes :
         infra_issues' = check_network_infrastructure(client_ip, probe)
    /\ results' = [results EXCEPT
            !.status = "network_infrastructure_issues",
            !.escalation_path = "check_lan_wan_dhcp_dns",
            !.issues_found = @ \o (dhcp_dns_issues \o infra_issues'),
            !.recommendations = INFRA_RECOMMENDATIONS,
            !.steps_completed = @ \o <<"dhcp_dns_check", "infrastructure_check">>]
    /\ pc' = "done"
    /\ UNCHANGED <<client_ip, client_mac, sites, site_idx, client_info, events,
                   auth_issues, dhcp_dns_issues, health_issues, all_issues,
                   ping_issues, exc, last_fault, disconnect_issues, uptime_issues, ap_stats,
                   live_site, mvars, cvars, avars, pvars>>

\* HealthStage that sets status and escalation before the sub-stages run
HealthStage_EarlyEscalation ==
    /\ pc = "health"
    /\ Log("analyze_client_health")
    /\ health_issues' = analyze_client_health(client_info[1])
    /\ IF health_issues' # <<>>
       THEN /\ all_issues' = health_issues'
            /\ pc' = "disconnect"
            /\ results' = [results EXCEPT
                    !.status = "client_health_issues",
                    !.escalation_path = "manual_troubleshooting"]
       ELSE /\ results' = [results EXCEPT
                    !.status = "all_good",
                    !.escalation_path = "manual_steps_if_needed",
                    !.recommendations = ALL_GOOD_RECOMMENDATIONS,
                    !.steps_completed = @ \o <<"health_check", "all_checks_complete">>]
            /\ pc' = "done"
            /\ UNCHANGED all_issues
    /\ UNCHANGED <<client_ip, client_mac, sites, site_idx, client_info, events,
                   auth_issues, dhcp_dns_issues, ping_issues, exc, last_fault, hvars, mvars, cvars, avars, pvars>>

\* HealthStage that runs the sub-stages whatever the health analyzer found
HealthStage_AlwaysSubStages ==
    /\ pc = "health"
    /\ Log("analyze_client_health")
    /\ health_issues' = analyze_client_health(client_info[1])
    /\ all_issues' = health_issues'
    /\ pc' = "disconnect"
    /\ UNCHANGED results
    /\ UNCHANGED <<client_ip, client_mac, sites, site_idx, client_info, events,
                   auth_issues, dhcp_dns_issues, ping_issues, exc, last_fault, hvars, mvars, cvars, avars, pvars>>

\* STEP 4 and, when it finds nothing, STEP 5
HealthStage ==
    /\ pc = "health"
    /\ Log("analyze_client_health")
    /\ health_issues' = analyze_client_health(client_info[1])
    /\ IF health_issues' # <<>>
       THEN /\ all_issues' = health_issues'
            /\ pc' = "disconnect"
            /\ UNCHANGED results
       ELSE /\ results' = [results EXCEPT
                    !.status = "all_good",
                    !.escalation_path = "manual_steps_if_needed",
                    !.recommendations = ALL_GOOD_RECOMMENDATIONS,
                    !.steps_completed = @ \o <<"health_check", "all_checks_complete">>]
            /\ pc' = "done"
            /\ UNCHANGED all_issues
    /\ UNCHANGED <<client_ip, client_mac, sites, site_idx, client_info, events,
                   auth_issues, dhcp_dns_issues, ping_issues, exc, last_fault, hvars, mvars, cvars, avars, pvars>>

\* DisconnectStage ending the run as soon as it has a Finding of its own
DisconnectStage_Terminal ==
    /\ pc = "disconnect"
    /\ calls' = calls \o <<"analyze_disconnection_patterns", "GET events 5min">>
    /\ \/ \E kind \in GATEWAY_FAILURES :
            /\ Fault("GET events 5min", kind)
            /\ IF make_api_request(kind) = "raise"
               THEN Fail /\ UNCHANGED <<all_issues, disconnect_issues>>
               ELSE /\ disconnect_issues' = analyze_disconnection_patterns(NoEvents)
                    /\ all_issues' = all_issues \o disconnect_issues'
                    /\ pc' = "ping"
                    /\ UNCHANGED <<results, exc>>
       \/ \E resp \in RecentResponses \ {NoEvents} :
            /\ UNCHANGED last_fault
            /\ disconnect_issues' = analyze_disconnection_patterns(resp)
            /\ all_issues' = all_issues \o disconnect_issues'
            /\ IF analyze_disconnection_patterns(resp) # <<>>
               THEN /\ pc' = "done"
                    /\ results' = [results EXCEPT
                            !.status = "client_health_issues",
                            !.escalation_path = "manual_troubleshooting",
                            !.issues_found = all_issues',
                            !.steps_completed =
                                @ \o <<"health_check", "disconnection_analysis">>]
               ELSE /\ pc' = "ping"
                    /\ UNCHANGED results
            /\ UNCHANGED exc
    /\ UNCHANGED <<client_ip, client_mac, sites, site_idx, client_info, events,
                   auth_issues, dhcp_dns_issues, health_issues, ping_issues,
                   infra_issues, uptime_issues, ap_stats, live_site, mvars, cvars, avars, pvars>>

\* STEP 4a: analyze_disconnection_patterns, get_client_events over 5 minutes
DisconnectStage ==
    /\ pc = "disconnect"
    /\ calls' = calls \o <<"analyze_disconnection_patterns", "GET events 5min">>
    /\ \/ \E kind \in GATEWAY_FAILURES :
            /\ Fault("GET events 5min", kind)
            /\ IF make_api_request(kind) = "raise"
               THEN Fail /\ UNCHANGED <<all_issues, disconnect_issues>>
               ELSE /\ disconnect_issues' = analyze_disconnection_patterns(NoEvents)
                    /\ all_issues' = all_issues \o disconnect_issues'
                    /\ pc' = "ping"
                    /\ UNCHANGED <<results, exc>>
       \/ \E resp \in RecentResponses \ {NoEvents} :
            /\ disconnect_issues' = analyze_disconnection_patterns(resp)
            /\ all_issues' = all_issues \o disconnect_issues'
            /\ pc' = "ping"
            /\ UNCHANGED <<results, exc, last_fault>>
    /\ UNCHANGED <<client_ip, client_mac, sites, site_idx, client_info, events,
                   auth_issues, dhcp_dns_issues, health_issues, ping_issues,
                   infra_issues, uptime_issues, ap_stats, live_site, mvars, cvars, avars, pvars>>

\* STEP 4a: check_client_connectivity_ping
PingStage ==
    /\ pc = "ping"
    /\ calls' = calls \o <<"check_client_connectivity_ping">>
                      \o (IF client_ip # UNKNOWN_IP THEN <<"ping client">> ELSE <<>>)
    /\ \E probe \in (IF client_ip # UNKNOWN_IP THEN SampleProbes ELSE {ProbeRaised}) :
         ping_issues' = check_client_connectivity_ping(client_ip, probe)
    /\ all_issues' = all_issues \o ping_issues'
    /\ pc' = "ap_uptime"
    /\ UNCHANGED <<client_ip, client_mac, sites, site_idx, client_info, events,
                   auth_issues, dhcp_dns_issues, health_issues, results, exc, last_fault, hvars, mvars, cvars, avars, pvars>>

\* client_info.get('ap_id') or client_info.get('ap_mac')
ApKey(ci) == IF ci.ap_id # None THEN "ap_id" ELSE IF ci.ap_mac # None THEN "ap_mac" ELSE "none"

\* the health branch's report
HealthResults(issues) ==
    [results EXCEPT
        !.status = "client_health_issues",
        !.escalation_path = "manual_troubleshooting",
        !.issues_found = issues,
        !.steps_completed = @ \o <<"health_check", "disconnection_analysis",
                                   "ping_check", "ap_uptime_check">>,
        !.recommendations = HealthRecommendations(client_info[1], ping_issues)]

\* STEP 4b and the compilation of the health branch's report
ApUptimeStage ==
    /\ pc = "ap_uptime"
    /\ LET ci == client_info[1] IN
       IF ci.site_id # None /\ ApKey(ci) # "none"
       THEN /\ calls' = calls \o <<"check_ap_uptime", "GET ap stats by " \o ApKey(ci)>>
            /\ \/ \E kind \in GATEWAY_FAILURES :
                    /\ Fault("GET ap stats by " \o ApKey(ci), kind)
                    /\ IF make_api_request(kind) = "raise"
                       THEN Fail /\ UNCHANGED <<all_issues, uptime_issues, ap_stats>>
                       ELSE /\ ap_stats' = Some(NoStats)
                            /\ uptime_issues' = ApUptimeCheck(NoStats)
                            /\ all_issues' = all_issues \o uptime_issues'
                            /\ results' = HealthResults(all_issues')
                            /\ pc' = "done"
                            /\ UNCHANGED exc
               \/ \E resp \in ApStatsResponses \ {NoStats} :
                    /\ ap_stats' = Some(resp)
                    /\ uptime_issues' = ApUptimeCheck(resp)
                    /\ all_issues' = all_issues \o uptime_issues'
                    /\ results' = HealthResults(all_issues')
                    /\ pc' = "done"
                    /\ UNCHANGED <<exc, last_fault>>
       ELSE /\ results' = HealthResults(all_issues)
            /\ pc' = "done"
            /\ UNCHANGED <<all_issues, uptime_issues, ap_stats, exc, calls, last_fault>>
    /\ UNCHANGED <<client_ip, client_mac, sites, site_idx, client_info, events,
                   auth_issues, dhcp_dns_issues, health_issues, ping_issues,
                   infra_issues, disconnect_issues, live_site, mvars, cvars, avars, pvars>>

Next ==
    \/ GetSites
    \/ GetSiteClients
    \/ GetApName
    \/ GetHistorical
    \/ GetEvents
    \/ AuthStage
    \/ DhcpDnsStage
    \/ InfraStage
    \/ HealthStage
    \/ DisconnectStage
    \/ PingStage
    \/ ApUptimeStage

Spec == Init /\ [][Next]_vars

----------------------------------------------------------------------------
(* Properties of a run (checked under Spec) *)

Returned == pc = "done"

\* get_client_info returned nothing usable: the run took the not-found return
NotFound == Returned /\ ~exc /\ (client_info = None \/ client_info[1] = EmptyClient)

\* the run got past the association stage and no exception reached the
\* except clause
FoundNoException == Returned /\ ~exc /\ ~NotFound

Occurs(seq, x) == \E i \in 1 .. Len(seq) : seq[i] = x

LATER_STAGE_CALLS ==
    {"analyze_dhcp_dns_issues", "check_network_infrastructure", "ping gateway",
     "analyze_client_health", "analyze_disconnection_patterns", "GET events 5min",
     "check_client_connectivity_ping", "ping client", "check_ap_uptime",
     "GET ap stats by ap_id", "GET ap stats by ap_mac"}

LATER_STAGE_STEPS ==
    {"dhcp_dns_check", "infrastructure_check", "health_check",
     "disconnection_analysis", "ping_check", "ap_uptime_check", "all_checks_complete"}

\* C1: once the authentication stage has produced a Finding the run has ended
\* with status authentication_issues and escalation troubleshoot_on_ise, no
\* DHCP/DNS analyzer, infrastructure check, health analyzer, ping probe or
\* AP-stats fetch was or will be invoked, and steps_completed names no DHCP,
\* infrastructure or health step.
C1_AuthTerminal ==
    auth_issues # <<>> =>
        /\ Returned
        /\ results.status = "authentication_issues"
        /\ results.escalation_path = "troubleshoot_on_ise"
        /\ \A i \in 1 .. Len(calls) : calls[i] \notin LATER_STAGE_CALLS
        /\ \A i \in 1 .. Len(results.steps_completed) :
                results.steps_completed[i] \notin LATER_STAGE_STEPS

C1_Witness ==
    /\ Returned
    /\ auth_issues # <<>>
    /\ \E i \in 1 .. Len(EventList(events)) :
            EventList(events)[i].type = <<Lo("eap_failure")>>
    /\ \E i \in 1 .. Len(EventList(events)) : IsDhcpDnsIssue(EventList(events)[i])

\* C2: when the client was found and no exception occurred the final status
\* follows the priority authentication > infrastructure > client health >
\* clean over what the three analyzers yield on the run's data.
C2_StatusPriority ==
    FoundNoException =>
        LET evs == EventList(events)
            auth == \E i \in 1 .. Len(evs) : IsAuthFailure(evs[i])
            dhcp == \E i \in 1 .. Len(evs) : IsDhcpDnsIssue(evs[i])
            health == analyze_client_health(client_info[1]) # <<>>
        IN results.status =
            IF auth THEN "authentication_issues"
            ELSE IF dhcp THEN "network_infrastructure_issues"
            ELSE IF health THEN "client_health_issues"
            ELSE "all_good"

C2_Witness ==
    /\ FoundNoException
    /\ results.status = "network_infrastructure_issues"
    /\ analyze_client_health(client_info[1]) # <<>>

\* C3: a returned report with status all_good has an empty issues_found, and
\* a returned report with a non-empty issues_found is not all_good.
C3_AllGoodMeansNoFindings ==
    Returned =>
        /\ results.status = "all_good" => results.issues_found = <<>>
        /\ results.issues_found # <<>> => results.status # "all_good"

C3_Witness ==
    /\ Returned
    /\ results.status = "all_good"
    /\ EventList(events) # <<>>
    /\ results.issues_found = <<>>

\* C4: every returned report pairs status and escalation_path one-to-one,
\* error going with no escalation path, also after an internal exception.
STATUS_ESCALATION ==
    { <<"authentication_issues", "troubleshoot_on_ise">>,
      <<"network_infrastructure_issues", "check_lan_wan_dhcp_dns">>,
      <<"client_health_issues", "manual_troubleshooting">>,
      <<"all_good", "manual_steps_if_needed">>,
      <<"error", "None">> }

C4_StatusEscalationPairs ==
    Returned => <<results.status, results.escalation_path>> \in STATUS_ESCALATION

C4_Witness ==
    /\ Returned
    /\ exc
    /\ health_issues # <<>>
    /\ results.status = "error"
    /\ results.escalation_path = "None"

\* C5: when the client is found neither live nor in the historical search the
\* report has status error, empty steps_completed and issues_found, no
\* escalation path and the recommendation to verify the MAC address format,
\* and neither the events fetch nor any later stage was invoked.
C5_NotFound ==
    NotFound =>
        /\ results.status = "error"
        /\ results.steps_completed = <<>>
        /\ results.issues_found = <<>>
        /\ results.escalation_path = "None"
        /\ Occurs(results.recommendations, "Verify client MAC address format")
        /\ \A i \in 1 .. Len(calls) :
                calls[i] \in {"GET sites", "GET site clients", "GET clients search"}

C5_Witness ==
    /\ NotFound
    /\ calls = <<"GET sites", "GET site clients", "GET site clients", "GET clients search">>

----------------------------------------------------------------------------
(* The analyzers on their own, over every input of the bounded ranges *)

MetricClients ==
    {[EmptyClient EXCEPT !.rssi = r, !.snr = s] :
        r \in Opt(-MaxRssiDrop .. 0), s \in Opt(-2 .. MaxSnr)}
    \cup {[EmptyClient EXCEPT !.tx_retries = Some(tr), !.tx_pkts = tp,
                              !.rx_retries = rr, !.rx_pkts = Some(rp)] :
        tr \in 0 .. MaxRetries, tp \in Opt(0 .. MaxPkts),
        rr \in Opt(0 .. MaxRetries), rp \in 0 .. MaxPkts}
    \cup {[EmptyClient EXCEPT !.latency_ms = l, !.rssi = r] :
        l \in Opt(0 .. MaxLatency), r \in {None, Some(-75)}}

MetricProbes ==
    Probes(0 .. MaxLoss, {150}) \cup Probes({0, 10}, 0 .. MaxLatency)

----------------------------------------------------------------------------
(* The analyzers applied to every input: analyze_client_health, called     *)
(* twice on the same record, and check_client_connectivity_ping.           *)

MetricInit ==
    /\ pc = "off"
    /\ client_ip = UNKNOWN_IP
    /\ client_mac = Mac(HEX_A, ":", FALSE)
    /\ sites = <<>>
    /\ site_idx = 1
    /\ client_info = None
    /\ events = NoEvents
    /\ auth_issues = <<>>
    /\ dhcp_dns_issues = <<>>
    /\ health_issues = <<>>
    /\ all_issues = <<>>
    /\ ping_issues = <<>>
    /\ infra_issues = <<>>
    /\ disconnect_issues = <<>>
    /\ uptime_issues = <<>>
    /\ ap_stats = None
    /\ live_site = 0
    /\ results = InitialResults
    /\ exc = FALSE
    /\ calls = <<>>
    /\ last_fault = None
    /\ m_pc = "input"
    /\ \/ /\ m_client \in MetricClients
          /\ m_ip = UNKNOWN_IP
          /\ m_probe = ProbeRaised
          /\ m_recent = NoEvents
       \/ /\ m_client = EmptyClient
          /\ m_ip = KNOWN_IP
          /\ m_probe \in MetricProbes
          /\ m_recent = NoEvents
       \/ /\ m_client = EmptyClient
          /\ m_ip = UNKNOWN_IP
          /\ m_probe = ProbeRaised
          /\ m_recent \in RecentResponses
    /\ m_health = <<>>
    /\ m_health2 = <<>>
    /\ m_ping = <<>>
    /\ m_disc = <<>>
    /\ CliOff
    /\ AuthOff
    /\ PairOff

CallHealth ==
    /\ m_pc = "input"
    /\ m_health' = analyze_client_health(m_client)
    /\ m_pc' = "health"
    /\ UNCHANGED <<m_client, m_ip, m_probe, m_health2, m_ping, m_recent, m_disc, rvars, cvars, avars, pvars>>

CallHealthAgain ==
    /\ m_pc = "health"
    /\ m_health2' = analyze_client_health(m_client)
    /\ m_pc' = "health2"
    /\ UNCHANGED <<m_client, m_ip, m_probe, m_health, m_ping, m_recent, m_disc, rvars, cvars, avars, pvars>>

CallPing ==
    /\ m_pc = "input"
    /\ m_ping' = check_client_connectivity_ping(m_ip, m_probe)
    /\ m_pc' = "ping"
    /\ UNCHANGED <<m_client, m_ip, m_probe, m_health, m_health2, m_recent, m_disc, rvars, cvars, avars, pvars>>

CallDisconnect ==
    /\ m_pc = "input"
    /\ m_disc' = analyze_disconnection_patterns(m_recent)
    /\ m_pc' = "disconnect"
    /\ UNCHANGED <<m_client, m_ip, m_probe, m_health, m_health2, m_ping, m_recent, rvars, cvars, avars, pvars>>

MetricNext == CallHealth \/ CallHealthAgain \/ CallPing \/ CallDisconnect

SpecMetric == MetricInit /\ [][MetricNext]_vars

----------------------------------------------------------------------------
(* Properties of the analyzers (checked under SpecMetric) *)

FindingsOf(fs, m) == SelectSeq(fs, LAMBDA f : f.metric = m)
HasFinding(fs, m) == FindingsOf(fs, m) # <<>>
HasSeverity(fs, m, sev) == \E i \in 1 .. Len(fs) : fs[i].metric = m /\ fs[i].severity = sev

\* C6 as stated: for every integer RSSI value v present in the record,
\* no RSSI Finding iff v > -67, HIGH iff v < -80, MEDIUM iff -80 <= v <= -70.
C6_RssiAsStated ==
    (m_pc = "health" /\ m_client.rssi # None) =>
        LET v == m_client.rssi[1] IN
        /\ ~HasFinding(m_health, "RSSI") <=> v > RSSI_GOOD
        /\ HasSeverity(m_health, "RSSI", "HIGH") <=> v < RSSI_HIGH
        /\ HasSeverity(m_health, "RSSI", "MEDIUM") <=> (RSSI_HIGH <= v /\ v <= RSSI_POOR)

\* C6 amended: for every integer RSSI value v present in the record,
\* no RSSI Finding iff v >= -70, HIGH iff v < -80, MEDIUM iff -80 <= v < -70.
C6_RssiThresholds ==
    (m_pc = "health" /\ m_client.rssi # None) =>
        LET v == m_client.rssi[1] IN
        /\ ~HasFinding(m_health, "RSSI") <=> v >= RSSI_POOR
        /\ HasSeverity(m_health, "RSSI", "HIGH") <=> v < RSSI_HIGH
        /\ HasSeverity(m_health, "RSSI", "MEDIUM") <=> (RSSI_HIGH <= v /\ v < RSSI_POOR)
        /\ Len(FindingsOf(m_health, "RSSI")) <= 1

C6_Witness ==
    /\ m_pc = "health"
    /\ m_client.rssi = Some(RSSI_POOR)
    /\ ~HasFinding(m_health, "RSSI")

\* C7: for every SNR value v present in the record, v = 0 included, an SNR
\* Finding is emitted iff v < 15, HIGH iff v < 10 and MEDIUM otherwise; an
\* absent SNR yields no SNR Finding.
C7_SnrThresholds ==
    m_pc = "health" =>
        IF m_client.snr = None
        THEN ~HasFinding(m_health, "SNR")
        ELSE LET v == m_client.snr[1] IN
             /\ HasFinding(m_health, "SNR") <=> v < SNR_POOR
             /\ HasSeverity(m_health, "SNR", "HIGH") <=> v < SNR_HIGH
             /\ HasSeverity(m_health, "SNR", "MEDIUM") <=> (SNR_HIGH <= v /\ v < SNR_POOR)

\* C8: with non-negative counts the retry rate of a direction is
\* retries/packets*100 and 0 when that direction has no packets; at most one
\* Retries Finding is emitted, it is emitted iff the larger rate exceeds 10,
\* it is HIGH iff the larger rate exceeds 20 and MEDIUM otherwise, and a second
\* evaluation of the same record returns the same list.
PctAbove(retries, pkts, t) == pkts > 0 /\ retries * 100 > t * pkts

C8_RetryRate ==
    LET tr == GetOr(m_client.tx_retries, 0)
        tp == GetOr(m_client.tx_pkts, 0)
        rr == GetOr(m_client.rx_retries, 0)
        rp == GetOr(m_client.rx_pkts, 0)
        concern == PctAbove(tr, tp, RETRY_CONCERN) \/ PctAbove(rr, rp, RETRY_CONCERN)
        high == PctAbove(tr, tp, RETRY_HIGH) \/ PctAbove(rr, rp, RETRY_HIGH)
    IN
    /\ m_pc \in {"health", "health2"} =>
        /\ Len(FindingsOf(m_health, "Retries")) <= 1
        /\ HasFinding(m_health, "Retries") <=> concern
        /\ HasSeverity(m_health, "Retries", "HIGH") <=> high
        /\ HasSeverity(m_health, "Retries", "MEDIUM") <=> (concern /\ ~high)
    /\ m_pc = "health2" => m_health2 = m_health

C8_Witness ==
    /\ m_pc = "health2"
    /\ m_client.tx_pkts = Some(0)
    /\ m_client.tx_retries = Some(3)
    /\ m_client.rx_retries = Some(2)
    /\ m_client.rx_pkts = Some(10)
    /\ HasSeverity(m_health, "Retries", "MEDIUM")

\* C9: every latency value L, taken from the client record (latency_ms) or
\* parsed from the ping output as its average, yields a latency Finding iff
\* L > 100, HIGH iff L >= 200 and MEDIUM iff 100 < L < 200.
LatencyRule(fs, m, L) ==
    /\ HasFinding(fs, m) <=> L > LATENCY_POOR
    /\ HasSeverity(fs, m, "HIGH") <=> L >= LATENCY_HIGH
    /\ HasSeverity(fs, m, "MEDIUM") <=> (LATENCY_POOR < L /\ L < LATENCY_HIGH)
    /\ Len(FindingsOf(fs, m)) <= 1

C9_LatencyThresholds ==
    /\ (m_pc = "health" /\ m_client.latency_ms # None) =>
            LatencyRule(m_health, "Latency", m_client.latency_ms[1])
    /\ (m_pc = "ping" /\ m_ip # UNKNOWN_IP /\ ~m_probe.raised
        /\ m_probe.returncode = 0 /\ m_probe.out.avg_fmt = "plain") =>
            LatencyRule(m_ping, "Average Latency", m_probe.out.avg)

C9_Witness ==
    /\ m_pc = "ping"
    /\ m_probe.out.avg_fmt = "plain"
    /\ m_probe.out.avg = LATENCY_HIGH
    /\ HasSeverity(m_ping, "Average Latency", "HIGH")

\* C10: for every ping probe that ran against a known client IP and whose
\* output reports a loss percentage p, whatever the return code, a Packet
\* Loss Finding is emitted iff p > 5, HIGH iff p > 15, MEDIUM iff 5 < p <= 15.
C10_PacketLoss ==
    (m_pc = "ping" /\ m_ip # UNKNOWN_IP /\ ~m_probe.raised
     /\ m_probe.out.loss_fmt # "none") =>
        LET p == m_probe.out.loss IN
        /\ HasFinding(m_ping, "Packet Loss") <=> p > LOSS_POOR
        /\ HasSeverity(m_ping, "Packet Loss", "HIGH") <=> p > LOSS_HIGH
        /\ HasSeverity(m_ping, "Packet Loss", "MEDIUM") <=> (LOSS_POOR < p /\ p <= LOSS_HIGH)

----------------------------------------------------------------------------
(* Properties of the disconnection analyzer (checked under SpecMetric) *)

\* events of the answered window whose type names a disconnect or a
\* disassociation, in any letter case
DisconnectsIn(resp) ==
    IF resp.kind = "dict" /\ resp.has_results
    THEN Cardinality({i \in 1 .. Len(resp.results) :
            \E j \in 1 .. Len(resp.results[i].type) :
                resp.results[i].type[j].w \in {"disconnect", "disassoc"}})
    ELSE 0

\* C11: analyze_disconnection_patterns emits its HIGH Disconnection Pattern
\* Finding iff the 5-minute window holds at least 7 events whose type contains
\* 'disconnect' or 'disassoc'; with 6 or fewer, or without an answer from the
\* fetch, it emits nothing.
C11_DisconnectThreshold ==
    m_pc = "disconnect" =>
        LET n == DisconnectsIn(m_recent) IN
        /\ n >= DISCONNECT_THRESHOLD =>
                m_disc = <<Finding("Disconnection Pattern", <<n>>, "HIGH")>>
        /\ n < DISCONNECT_THRESHOLD => m_disc = <<>>
        /\ m_recent.kind = "none" => m_disc = <<>>

C11_Witness ==
    /\ m_pc = "disconnect"
    /\ DisconnectsIn(m_recent) = DISCONNECT_THRESHOLD
    /\ Len(m_recent.results) = DISCONNECT_THRESHOLD + 1
    /\ m_disc # <<>>

----------------------------------------------------------------------------
(* Further properties of a run (checked under Spec) *)

\* metrics of the Findings that report an anomaly of the 5-minute window, of
\* the ping probe or of the AP statistics
ANOMALY_METRICS ==
    {"Disconnection Pattern", "Packet Loss", "Average Latency",
     "Connectivity Test", "AP Uptime"}

\* the run's client has RSSI -75, SNR 22 and no retries, its events hold no
\* authentication, DHCP/DNS or disconnect event, and neither the 5-minute
\* window nor the ping probe nor the AP statistics showed an anomaly
QuietScenario ==
    /\ Returned /\ ~exc
    /\ client_info # None
    /\ client_info[1].rssi = Some(-75)
    /\ client_info[1].snr = Some(22)
    /\ GetOr(client_info[1].tx_retries, 0) = 0
    /\ GetOr(client_info[1].rx_retries, 0) = 0
    /\ client_info[1].latency_ms = None
    /\ \A i \in 1 .. Len(EventList(events)) :
            LET ev == EventList(events)[i] IN
            ~IsAuthFailure(ev) /\ ~IsDhcpDnsIssue(ev) /\ ~IsDisconnect(ev)
    /\ \A i \in 1 .. Len(results.issues_found) :
            results.issues_found[i].metric \notin ANOMALY_METRICS

\* C12: every run on a client with RSSI -75, SNR 22, no retries and no event
\* of interest, with a quiet ping probe and quiet AP statistics, with or
\* without a client IP, returns status client_health_issues and exactly one
\* Finding, the MEDIUM RSSI Finding.
C12_ExactlyOneRssiFinding ==
    QuietScenario =>
        /\ results.status = "client_health_issues"
        /\ results.issues_found = <<Finding("RSSI", <<-75>>, "MEDIUM")>>

\* a stage has been entered once its analyzer or check has been invoked
Entered(op) == Occurs(calls, op)

\* the disconnection sub-stage added a Finding to the health branch
DisconnectFound ==
    \E i \in 1 .. Len(all_issues) : all_issues[i].metric = "Disconnection Pattern"

LATER_FETCHES ==
    {"GET devices", "GET events", "GET events 5min",
     "GET ap stats by ap_id", "GET ap stats by ap_mac"}

\* C14: whichever way the Gateway fails a fetch (auth, rate-limit, not-found,
\* timeout) the fetcher returns None instead of propagating, and a run whose
\* client was found and in which a later fetch (AP name, events, 5-minute
\* events, AP stats) failed does not end with status error.
C14_GatewayFailuresDegrade ==
    last_fault # None =>
        /\ make_api_request(last_fault[1].kind) = "none"
        /\ (Returned /\ last_fault[1].fetch \in LATER_FETCHES) =>
                ~exc /\ results.status # "error"

\* the call that shows the stage recording a step name has run
StageCallOf(step) ==
    CASE step = "client_association_check" -> "GET sites"
      [] step = "authentication_check" -> "analyze_auth_issues"
      [] step = "dhcp_dns_check" -> "analyze_dhcp_dns_issues"
      [] step = "infrastructure_check" -> "check_network_infrastructure"
      [] step = "health_check" -> "analyze_client_health"
      [] step = "disconnection_analysis" -> "analyze_disconnection_patterns"
      [] step = "ping_check" -> "check_client_connectivity_ping"
      [] step = "ap_uptime_check" -> "check_client_connectivity_ping"
      [] step = "all_checks_complete" -> "analyze_client_health"

\* C15: an exception raised inside a stage never leaves troubleshoot_client:
\* the run has stopped with a report of status error whose issues_found ends
\* with the exception's message, nothing was invoked after the call that
\* raised, and steps_completed names only stages that had run before it.
C15_ExceptionReport ==
    exc =>
        /\ Returned
        /\ results.status = "error"
        /\ results.issues_found # <<>>
        /\ results.issues_found[Len(results.issues_found)] = ErrorFinding
        /\ last_fault # None
        /\ calls[Len(calls)] = last_fault[1].fetch
        /\ \A i \in 1 .. Len(results.steps_completed) :
                Entered(StageCallOf(results.steps_completed[i]))

C15_Witness ==
    /\ exc
    /\ Entered("check_client_connectivity_ping")
    /\ last_fault[1].fetch = "GET ap stats by ap_id"
    /\ results.steps_completed =
        <<"client_association_check", "authentication_check", "dhcp_dns_check">>

\* the statuses a report may carry
TERMINAL_STATUSES ==
    {"error", "authentication_issues", "network_infrastructure_issues",
     "client_health_issues", "all_good"}

\* C20: every returned report, the one built by the except clause included,
\* has a status of the closed set; the placeholder 'unknown' is never returned.
C20_StatusClosedSet ==
    Returned =>
        /\ results.status \in TERMINAL_STATUSES
        /\ results.status # InitialResults.status

C20_Witness ==
    /\ Returned
    /\ exc
    /\ client_info = None
    /\ results.steps_completed = <<>>
    /\ results.status = "error"

----------------------------------------------------------------------------
(* Properties of the ping probe (checked under SpecMetric) *)

\* the probe against a known client IP failed: the command could not be
\* executed, or it completed with a nonzero return code
ProbeFailed(ip, probe) ==
    /\ ip # UNKNOWN_IP
    /\ probe.raised \/ probe.returncode # 0

\* C16: every failure of the ping probe against a known client IP, an
\* exception or a nonzero return code, is recorded as at least one Finding
\* returned by check_client_connectivity_ping.
C16_ProbeFailuresRecorded ==
    (m_pc = "ping" /\ ProbeFailed(m_ip, m_probe)) => m_ping # <<>>

----------------------------------------------------------------------------
(* The troubleshoot command: cmd_troubleshoot_wireless.  A MAC argument is  *)
(* a string of one-character fragments.                                     *)

HEX_CHARS == {"0", "1", "2", "3", "4", "5", "6", "7", "8", "9",
              "a", "b", "c", "d", "e", "f"}

LETTERS == {"a", "b", "c", "d", "e", "f", "g"}

\* str.replace(old, ''): every occurrence of the character is removed
replace(s, old) == SelectSeq(s, LAMBDA f : f.w # old)

\* ':'.join([client_mac[i:i+2] for i in range(0, 12, 2)])
JoinPairs(m) ==
    [i \in 1 .. (Len(m) + (Len(m) \div 2) - 1) |->
        IF i % 3 = 0 THEN Lo(":") ELSE m[i - (i \div 3)]]

NormalizeMac_KeepCase(arg) ==
    LET m == replace(replace(arg, ":"), "-")
    IN  IF Len(m) = 12 THEN JoinPairs(m) ELSE m

\* the normalization of the MAC argument
NormalizeMac(arg) ==
    LET m == replace(replace(lower(arg), ":"), "-")
    IN  IF Len(m) = 12 THEN JoinPairs(m) ELSE m

\* get_client_info: what it compares of the searched and of a listed MAC
SearchKey(text) == replace(replace(lower(text), ":"), "-")

MacMatches(listed, searched) == SearchKey(listed) = SearchKey(searched)

ExitCode_IssuesZero(status) ==
    IF status \in {"error"} THEN 1 ELSE 0

\* the exit code for the status of the report
ExitCode(status) ==
    IF status \in {"error"}
    THEN 1
    ELSE IF status \in {"authentication_issues",
                        "network_infrastructure_issues",
                        "client_health_issues"}
    THEN 2
    ELSE 0

----------------------------------------------------------------------------
(* Inputs of the command: spellings of MAC addresses *)

MaxMacDigits == 13

DigitPoolA == <<"a", "a", "b", "b", "c", "c", "d", "d", "e", "e", "f", "f", "0">>
DigitPoolB == <<"1", "1", "2", "2", "3", "3", "4", "4", "5", "5", "6", "6", "7">>

\* the first n digits of a pool; with bad, the first one is not a hex digit
Digits(pool, n, bad) ==
    [i \in 1 .. n |->
        IF bad /\ i = 1 THEN "g" ELSE pool[((i - 1) % Len(pool)) + 1]]

CASES == {"lower", "upper", "mixed"}
SEPARATORS == {"none", "colon", "dash", "mixed", "triple"}

Glyph(d, case, i) ==
    IF d \in LETTERS /\ (case = "upper" \/ (case = "mixed" /\ i % 2 = 1))
    THEN Up(d)
    ELSE Lo(d)

SepAfter(sep, i, n) ==
    IF i = n \/ sep = "none" THEN <<>>
    ELSE IF sep = "triple" THEN (IF i % 3 = 0 THEN <<Lo(":")>> ELSE <<>>)
    ELSE IF i % 2 # 0 THEN <<>>
    ELSE IF sep = "colon" THEN <<Lo(":")>>
    ELSE IF sep = "dash" THEN <<Lo("-")>>
    ELSE IF i % 4 = 0 THEN <<Lo("-")>> ELSE <<Lo(":")>>

RECURSIVE SpellFrom(_, _, _, _)
SpellFrom(d, case, sep, i) ==
    IF i > Len(d)
    THEN <<>>
    ELSE <<Glyph(d[i], case, i)>> \o SepAfter(sep, i, Len(d))
            \o SpellFrom(d, case, sep, i + 1)

\* a way of writing the digits d
Spell(d, case, sep) == SpellFrom(d, case, sep, 1)

MacDigits ==
    {Digits(DigitPoolA, n, bad) : n \in 0 .. MaxMacDigits, bad \in BOOLEAN}

ListedDigits == {Digits(DigitPoolA, 12, FALSE), Digits(DigitPoolB, 12, FALSE)}

CliArgs ==
    {[token |-> t, mac |-> Spell(d, c, s), ip |-> ip, org |-> o, digits |-> d,
      listed |-> Spell(ld, lc, ls), listed_digits |-> ld] :
        t \in BOOLEAN, ip \in BOOLEAN, o \in BOOLEAN,
        d \in MacDigits, c \in CASES, s \in SEPARATORS,
        ld \in ListedDigits, lc \in {"lower", "upper"}, ls \in {"none", "dash"}}

----------------------------------------------------------------------------
(* The command, step by step *)

Say(what) == c_log' = Append(c_log, what)

\* return <code>
Return(code) ==
    /\ c_exit' = code
    /\ c_pc' = "exit"

CliInit ==
    /\ pc = "off"
    /\ client_ip = UNKNOWN_IP
    /\ client_mac = Mac(HEX_A, ":", FALSE)
    /\ sites = <<>>
    /\ site_idx = 1
    /\ client_info = None
    /\ events = NoEvents
    /\ auth_issues = <<>>
    /\ dhcp_dns_issues = <<>>
    /\ health_issues = <<>>
    /\ all_issues = <<>>
    /\ ping_issues = <<>>
    /\ infra_issues = <<>>
    /\ disconnect_issues = <<>>
    /\ uptime_issues = <<>>
    /\ ap_stats = None
    /\ live_site = 0
    /\ results = InitialResults
    /\ exc = FALSE
    /\ calls = <<>>
    /\ last_fault = None
    /\ m_pc = "off"
    /\ m_client = EmptyClient
    /\ m_ip = UNKNOWN_IP
    /\ m_probe = ProbeRaised
    /\ m_recent = NoEvents
    /\ m_health = <<>>
    /\ m_health2 = <<>>
    /\ m_ping = <<>>
    /\ m_disc = <<>>
    /\ c_pc = "args"
    /\ c_args \in CliArgs
    /\ c_mac = <<>>
    /\ c_ip = ""
    /\ c_log = <<>>
    /\ c_match = FALSE
    /\ c_status = "none"
    /\ c_exit = -1
    /\ AuthOff
    /\ PairOff

\* the token and MAC checks, the normalization and the default client IP
CheckArgs ==
    /\ c_pc = "args"
    /\ IF ~c_args.token
       THEN /\ Say("ERROR: Mist API token is required.")
            /\ Return(1)
            /\ UNCHANGED <<c_mac, c_ip>>
       ELSE IF c_args.mac = <<>>
       THEN /\ Say("ERROR: Client MAC address is required for troubleshooting")
            /\ Return(1)
            /\ UNCHANGED <<c_mac, c_ip>>
       ELSE /\ c_mac' = NormalizeMac(c_args.mac)
            /\ IF ~c_args.ip
               THEN /\ Say("WARNING: Client IP not provided.")
                    /\ c_ip' = UNKNOWN_IP
               ELSE /\ c_ip' = KNOWN_IP
                    /\ UNCHANGED c_log
            /\ c_pc' = "auth"
            /\ UNCHANGED c_exit
    /\ UNCHANGED <<c_args, c_match, c_status, rvars, mvars, avars, pvars>>

\* with MistAuth(api_token, org_id): the constructor validates the token
\* against the Gateway and raises MistAuthError when that fails, which the
\* command's except Exception clause turns into exit code 1
OpenAuth ==
    /\ c_pc = "auth"
    /\ \/ /\ c_log' = c_log \o <<"MistAuth", "ERROR: MistAuthError">>
          /\ Return(1)
       \/ /\ Say("MistAuth")
          /\ c_pc' = IF c_args.org THEN "run" ELSE "org"
          /\ UNCHANGED c_exit
    /\ UNCHANGED <<c_args, c_mac, c_ip, c_match, c_status, rvars, mvars, avars, pvars>>

\* no organization given: auto_select_org
SelectOrg ==
    /\ c_pc = "org"
    /\ \/ /\ c_log' = c_log \o <<"auto_select_org", "Unable to determine organization ID">>
          /\ Return(1)
       \/ /\ Say("auto_select_org")
          /\ c_pc' = "run"
          /\ UNCHANGED c_exit
    /\ UNCHANGED <<c_args, c_mac, c_ip, c_match, c_status, rvars, mvars, avars, pvars>>

\* troubleshoot_client is called with the normalized MAC; it compares the
\* MAC with the one the Gateway lists and returns a report, whose status
\* gives the exit code
RunTroubleshoot ==
    /\ c_pc = "run"
    /\ Say("troubleshoot_client")
    /\ c_match' = MacMatches(c_args.listed, c_mac)
    /\ \E status \in TERMINAL_STATUSES :
            /\ c_status' = status
            /\ Return(ExitCode(status))
    /\ UNCHANGED <<c_args, c_mac, c_ip, rvars, mvars, avars, pvars>>

\* except KeyboardInterrupt: the user interrupts the command at any stage
Interrupt ==
    /\ c_pc \in {"args", "auth", "org", "run"}
    /\ Say("KeyboardInterrupt")
    /\ Return(130)
    /\ UNCHANGED <<c_args, c_mac, c_ip, c_match, c_status, rvars, mvars, avars, pvars>>

CliNext == CheckArgs \/ OpenAuth \/ SelectOrg \/ RunTroubleshoot \/ Interrupt

SpecCli == CliInit /\ [][CliNext]_vars

----------------------------------------------------------------------------
(* Properties of the command (checked under SpecCli) *)

\* the argument spells exactly twelve hexadecimal digits
WellFormed(args) ==
    /\ Len(args.digits) = 12
    /\ \A i \in 1 .. Len(args.digits) : args.digits[i] \in HEX_CHARS

Normalized == c_pc \in {"auth", "org", "run", "exit"} /\ c_mac # <<>>

\* "aa:bb:cc:dd:ee:ff"
AA_COLON ==
    <<Lo("a"), Lo("a"), Lo(":"), Lo("b"), Lo("b"), Lo(":"),
      Lo("c"), Lo("c"), Lo(":"), Lo("d"), Lo("d"), Lo(":"),
      Lo("e"), Lo("e"), Lo(":"), Lo("f"), Lo("f")>>

\* "AA-BB-CC-DD-EE-FF"
AA_UPPER_DASH ==
    <<Up("a"), Up("a"), Lo("-"), Up("b"), Up("b"), Lo("-"),
      Up("c"), Up("c"), Lo("-"), Up("d"), Up("d"), Lo("-"),
      Up("e"), Up("e"), Lo("-"), Up("f"), Up("f")>>

\* "aabbccddeeff"
AA_BARE ==
    <<Lo("a"), Lo("a"), Lo("b"), Lo("b"), Lo("c"), Lo("c"),
      Lo("d"), Lo("d"), Lo("e"), Lo("e"), Lo("f"), Lo("f")>>

\* C17: the three spellings of aa:bb:cc:dd:ee:ff normalize to
\* "aa:bb:cc:dd:ee:ff"; every spelling of twelve hex digits, whatever its
\* separators and letter case, normalizes to the lowercase colon-separated
\* form; normalizing again changes nothing; and the live-client comparison
\* matches exactly the listed MACs with the same digits, whatever their
\* separators and case.
C17_MacNormalization ==
    Normalized =>
        /\ c_args.mac \in {AA_UPPER_DASH, AA_BARE, AA_COLON} => c_mac = AA_COLON
        /\ WellFormed(c_args) => c_mac = Spell(c_args.digits, "lower", "colon")
        /\ NormalizeMac(c_mac) = c_mac
        /\ (WellFormed(c_args) /\ c_status # "none") =>
                (c_match <=> c_args.listed_digits = c_args.digits)

C17_Witness ==
    /\ c_status # "none"
    /\ c_args.mac = AA_UPPER_DASH
    /\ c_mac = AA_COLON
    /\ c_args.listed = AA_BARE
    /\ c_match

Logged(what) == \E i \in 1 .. Len(c_log) : c_log[i] = what

\* C18: for every malformed MAC argument (not exactly twelve hexadecimal
\* digits once ':' and '-' are removed) the command returns exit code 1 and
\* never starts a run: MistAuth is not constructed, so the Gateway is not
\* contacted, and troubleshoot_client is not invoked.
C18_MalformedMacFailsFast ==
    ~WellFormed(c_args) =>
        /\ ~Logged("MistAuth")
        /\ ~Logged("auto_select_org")
        /\ ~Logged("troubleshoot_client")
        /\ c_pc = "exit" => (c_exit = 1 \/ Logged("KeyboardInterrupt"))

ISSUE_STATUSES ==
    {"authentication_issues", "network_infrastructure_issues",
     "client_health_issues"}

\* a CLI input error occurred: the token or the MAC is missing
InputError ==
    \/ Logged("ERROR: Mist API token is required.")
    \/ Logged("ERROR: Client MAC address is required for troubleshooting")

\* the command ended without a report although nobody interrupted it and
\* the token and the MAC were given
SetupFailed ==
    \/ Logged("ERROR: MistAuthError")
    \/ Logged("Unable to determine organization ID")

----------------------------------------------------------------------------
(* Properties of the report's contents (checked under Spec) *)

SEVERITIES == {"HIGH", "MEDIUM"}

\* the issue dicts of a list; the except clause appends a dict that holds
\* the exception's message only, which no stage created
IssueDicts(fs) == SelectSeq(fs, LAMBDA f : f.kind # "error")

\* C21: every Finding in issues_found of every returned report, whichever
\* stage created it, carries a severity that is HIGH or MEDIUM.
C21_SeverityHighOrMedium ==
    Returned =>
        \A i \in 1 .. Len(IssueDicts(results.issues_found)) :
            IssueDicts(results.issues_found)[i].severity \in SEVERITIES

\* the Findings of every analyzer of the run, in execution order; an
\* analyzer that was not executed has produced none
ProducedFindings ==
    auth_issues \o dhcp_dns_issues \o infra_issues \o health_issues
        \o disconnect_issues \o ping_issues \o uptime_issues

\* C22: in every returned report issues_found is exactly the
\* concatenation, in execution order, of the Findings produced by every
\* analyzer executed in that run.
C22_NoFindingDropped ==
    Returned => IssueDicts(results.issues_found) = ProducedFindings

\* in every report returned by a return statement of the try block
\* issues_found is exactly that concatenation; the report of the except
\* clause holds the exception's message and none of the Findings the health
\* branch had collected
FindingsOfCompletedRuns ==
    /\ (Returned /\ ~exc) => results.issues_found = ProducedFindings
    /\ (Returned /\ exc) => results.issues_found = <<ErrorFinding>>

----------------------------------------------------------------------------
(* Properties of the sub-stages of the health branch (checked under Spec) *)

\* the 5-minute event fetch, the ping command and the AP-stats fetch, with
\* the analyzers that issue them
SUB_STAGE_CALLS ==
    {"analyze_disconnection_patterns", "GET events 5min",
     "check_client_connectivity_ping", "ping client",
     "check_ap_uptime", "GET ap stats by ap_id", "GET ap stats by ap_mac"}

\* C28: the disconnection analysis, the ping probe and the AP-uptime check
\* are executed only in runs whose health stage produced at least one
\* Finding; in a run whose report has status all_good none of the three was
\* ever invoked.
C28_SubStagesOnlyAfterHealthFinding ==
    /\ \A op \in SUB_STAGE_CALLS : Entered(op) => health_issues # <<>>
    /\ (Returned /\ results.status = "all_good") =>
            /\ Entered("analyze_client_health")
            /\ health_issues = <<>>
            /\ \A op \in SUB_STAGE_CALLS : ~Entered(op)

C28_Witness ==
    /\ Returned
    /\ results.status = "all_good"
    /\ calls[Len(calls)] = "analyze_client_health"
    /\ client_info[1].rssi # None

\* what is really performed when the stage a step name stands for is run
CheckOf(step) ==
    CASE step = "client_association_check" -> "GET sites"
      [] step = "authentication_check" -> "analyze_auth_issues"
      [] step = "dhcp_dns_check" -> "analyze_dhcp_dns_issues"
      [] step = "infrastructure_check" -> "check_network_infrastructure"
      [] step = "health_check" -> "analyze_client_health"
      [] step = "disconnection_analysis" -> "GET events 5min"
      [] step = "ping_check" -> "ping client"
      [] step = "ap_uptime_check" -> "check_ap_uptime"
      [] step = "all_checks_complete" -> "analyze_client_health"

\* C29: in every returned report a stage name appears in steps_completed
\* only if that stage's check was really performed in the run (the ping
\* command run for ping_check, check_ap_uptime called for ap_uptime_check,
\* check_network_infrastructure called for infrastructure_check), and
\* 'client_association_check' is first whenever the list is not empty.
C29_StepsNameExecutedStages ==
    Returned =>
        /\ \A i \in 1 .. Len(results.steps_completed) :
                Entered(CheckOf(results.steps_completed[i]))
        /\ results.steps_completed # <<>> =>
                results.steps_completed[1] = "client_association_check"

----------------------------------------------------------------------------
(* Properties of client discovery (checked under Spec) *)

Count(seq, x) == Len(SelectSeq(seq, LAMBDA c : c = x))

\* how many sites before index k carry an id
SitesWithIdBefore(k) ==
    Cardinality({j \in 1 .. Len(sites) : j < k /\ sites[j].has_id})

\* the live lists are queried in site-list order, one query per site with an
\* id; a live match is returned from the first site that reports the MAC;
\* the historical search is issued only once every site with an id has been
\* queried without a match, and never after a live match
DiscoveryOrder ==
    /\ pc = "site_clients" =>
            /\ site_idx \in 1 .. Len(sites)
            /\ sites[site_idx].has_id
            /\ live_site = 0
            /\ Count(calls, "GET site clients") = SitesWithIdBefore(site_idx)
    /\ pc = "ap_name" =>
            /\ live_site = site_idx
            /\ client_info[1].site_id = Some(live_site)
            /\ Count(calls, "GET site clients") = SitesWithIdBefore(live_site + 1)
    /\ pc = "historical" =>
            /\ live_site = 0
            /\ client_info = None
            /\ Count(calls, "GET site clients") = SitesWithIdBefore(Len(sites) + 1)
    /\ Count(calls, "GET clients search") <= 1
    /\ live_site # 0 =>
            /\ ~Entered("GET clients search")
            /\ client_info # None /\ client_info[1].site_id = Some(live_site)

\* the latest call was a fetch of a site's live list and the Gateway failed it
SiteFetchJustFailed ==
    /\ last_fault # None
    /\ last_fault[1].fetch = "GET site clients"
    /\ calls[Len(calls)] = "GET site clients"

\* C30: client discovery queries the sites' live lists in site-list order
\* and returns the match of the lowest-index site reporting the MAC; the
\* historical search is issued only after every site with an id has been
\* queried without a match, never when a live match exists; and a failed
\* fetch for one site does not stop the search: the next site, or the
\* historical search, follows.
C30_DiscoveryOrderAndFallback ==
    /\ DiscoveryOrder
    /\ SiteFetchJustFailed => pc \in {"site_clients", "historical"}

----------------------------------------------------------------------------
(* MistAuth.  A message is a sequence of phrases; an operation returns a    *)
(* value or raises an exception that carries a message.                     *)

HasPhrase(msg, phrase) == \E i \in 1 .. Len(msg) : msg[i] = phrase

Returns(v) == [kind |-> "return", value |-> v]

Raises(type, msg, code) == [kind |-> "raise", type |-> type, msg |-> msg, code |-> code]

\* a or b, for strings: the first one that is not empty
OrElse(a, b) == IF a \in {"absent", "empty"} THEN b ELSE a

\* int(response.headers.get(name, default)): the default when the header is
\* absent, its value when it is a number, ValueError otherwise
IntHeader(h, default) ==
    CASE h.form = "absent" -> Some(default)
      [] h.form = "seconds" -> Some(h.n)
      [] OTHER -> None

RETRY_AFTER_DEFAULT == 60

\* MistAuth.make_request on what session.request answered: a response, or
\* one of the exceptions of requests
MistAuth_make_request(answer) ==
    IF answer.kind = "Timeout"
    THEN Raises("MistAuthError", <<"Request timed out after", "seconds">>, 0)
    ELSE IF answer.kind \in {"ConnectionError", "RetryError"}
    THEN Raises("MistAuthError", <<"Request failed:">>, 0)
    ELSE IF IntHeader(answer.remaining, 0) = None      \* _update_rate_limit_info
    THEN Raises("ValueError", <<"invalid literal for int()">>, 0)
    ELSE IF answer.status = 429
    THEN LET retry_after == IntHeader(answer.retry_after, RETRY_AFTER_DEFAULT) IN
         IF retry_after = None
         THEN Raises("ValueError", <<"invalid literal for int()">>, 0)
         ELSE Raises("MistRateLimitError",
                     <<"Rate limit exceeded", ". Retry after", "seconds.">>,
                     retry_after[1])
    ELSE IF answer.status >= 400
    THEN Raises("MistAuthError", <<"HTTP error">>, answer.status)
    ELSE IF answer.status = 204
    THEN Returns("{}")
    ELSE IF answer.body.json
    THEN Returns(answer.body.value)
    ELSE Returns("raw_response")

----------------------------------------------------------------------------
(* Inputs of MistAuth: tokens and what session.request may answer *)

TOKENS == {"absent", "empty", "token"}

MaxRetryAfter == 61
MaxRequests == 1

Headers(forms, N) ==
    {[form |-> f, n |-> 0] : f \in forms} \cup {[form |-> "seconds", n |-> n] : n \in N}

STATUS_CODES == {200, 204, 401, 403, 429, 500}

Bodies ==
    {[json |-> TRUE, value |-> "list"], [json |-> TRUE, value |-> "dict"],
     [json |-> FALSE, value |-> "text"]}

Responses ==
    [kind : {"response"}, status : STATUS_CODES, body : Bodies,
     retry_after : Headers({"absent", "http_date"}, (MaxRetryAfter - 1) .. MaxRetryAfter),
     remaining : Headers({"absent", "text"}, {1000})]

NoResponse(k) ==
    [kind |-> k, status |-> 0, body |-> [json |-> FALSE, value |-> "text"],
     retry_after |-> [form |-> "absent", n |-> 0],
     remaining |-> [form |-> "absent", n |-> 0]]

\* session.request returns a response or raises
SessionAnswers ==
    Responses
    \cup {NoResponse(k) : k \in {"Timeout", "ConnectionError", "RetryError"}}

----------------------------------------------------------------------------
(* MistAuth and MistNetworkClient, step by step *)

\* no troubleshooting run and no analyzer call is under way
RunOff ==
    /\ pc = "off"
    /\ client_ip = UNKNOWN_IP
    /\ client_mac = Mac(HEX_A, ":", FALSE)
    /\ sites = <<>>
    /\ site_idx = 1
    /\ client_info = None
    /\ events = NoEvents
    /\ auth_issues = <<>>
    /\ dhcp_dns_issues = <<>>
    /\ health_issues = <<>>
    /\ all_issues = <<>>
    /\ ping_issues = <<>>
    /\ infra_issues = <<>>
    /\ disconnect_issues = <<>>
    /\ uptime_issues = <<>>
    /\ ap_stats = None
    /\ live_site = 0
    /\ results = InitialResults
    /\ exc = FALSE
    /\ calls = <<>>
    /\ last_fault = None

AnalyzersOff ==
    /\ m_pc = "off"
    /\ m_client = EmptyClient
    /\ m_ip = UNKNOWN_IP
    /\ m_probe = ProbeRaised
    /\ m_recent = NoEvents
    /\ m_health = <<>>
    /\ m_health2 = <<>>
    /\ m_ping = <<>>
    /\ m_disc = <<>>

\* who constructs the MistAuth: the caller, MistNetworkClient.__init__ from a
\* config, MistWirelessTroubleshooter.__init__ (which passes no token), or
\* nobody (a MistNetworkClient given neither config nor auth)
AuthInputs ==
    {i \in [arg : TOKENS, env : TOKENS,
            by : {"caller", "client", "troubleshooter", "nobody"}] :
        i.by = "troubleshooter" => i.arg = "absent"}

AuthInit ==
    /\ PairOff
    /\ RunOff
    /\ AnalyzersOff
    /\ CliOff
    /\ a_pc = "new"
    /\ a_in \in AuthInputs
    /\ a_session = "none"
    /\ a_closes = <<>>
    /\ a_sent = <<>>
    /\ a_last = NoOp
    /\ k_pc = "new"
    /\ k_owns = FALSE
    /\ k_last = NoOp
    /\ t_pc = "new"
    /\ RateOff

Did(op, given, result) == [op |-> op, given |-> given, result |-> result]

TOKEN_REQUIRED ==
    <<"API token must be provided",
      "via environment variable MIST_API_TOKEN or constructor parameter.">>

\* MistAuth.__init__ that creates the session before it looks at the token
Construct_SessionFirst ==
    /\ a_pc = "new"
    /\ a_in.by # "nobody"
    /\ a_session' = "open"
    /\ LET api_token == OrElse(a_in.arg, a_in.env) IN
       IF api_token \in {"absent", "empty"}
       THEN /\ a_last' = Did("MistAuth", api_token, Raises("MistAuthError", TOKEN_REQUIRED, 0))
            /\ a_pc' = "failed"
            /\ k_pc' = IF a_in.by = "client" THEN "failed" ELSE k_pc
       ELSE /\ a_last' = Did("MistAuth", api_token, [kind |-> "none"])
            /\ a_pc' = "validate"
            /\ UNCHANGED k_pc
    /\ UNCHANGED <<a_in, a_closes, a_sent, k_owns, k_last, rvars, mvars, cvars, pvars, t_pc, lvars>>

\* MistAuth.__init__ up to the creation of the session; constructed by the
\* caller, or by MistNetworkClient.__init__ from a config
Construct ==
    /\ a_pc = "new"
    /\ a_in.by # "nobody"
    /\ LET api_token == OrElse(a_in.arg, a_in.env) IN
       IF api_token \in {"absent", "empty"}
       THEN /\ a_last' = Did("MistAuth", api_token, Raises("MistAuthError", TOKEN_REQUIRED, 0))
            /\ a_pc' = "failed"
            /\ k_pc' = IF a_in.by = "client" THEN "failed" ELSE k_pc
            /\ UNCHANGED a_session
       ELSE /\ a_session' = "open"
            /\ a_last' = Did("MistAuth", api_token, [kind |-> "none"])
            /\ a_pc' = "validate"
            /\ UNCHANGED k_pc
    /\ UNCHANGED <<a_in, a_closes, a_sent, k_owns, k_last, rvars, mvars, cvars, pvars, t_pc, lvars>>

\* _validate_auth on what session.get answered
validate_auth(answer) ==
    IF answer.kind # "response"
    THEN Raises("MistAuthError", <<"Failed to validate authentication:">>, 0)
    ELSE IF answer.status = 401
    THEN Raises("MistAuthError", <<"Invalid API token.">>, 401)
    ELSE IF answer.status = 403
    THEN Raises("MistAuthError", <<"Insufficient permissions.">>, 403)
    ELSE IF answer.status >= 400
    THEN Raises("MistAuthError", <<"Authentication validation failed:">>, answer.status)
    ELSE IF answer.status = 204 \/ ~answer.body.json \/ answer.body.value # "dict"
            \/ IntHeader(answer.remaining, 0) = None
    THEN Raises("MistAuthError", <<"Failed to validate authentication:">>, 0)
    ELSE Returns("None")

\* MistAuth.__init__, continued: _validate_auth sends GET /self
ValidateAuth ==
    /\ a_pc = "validate"
    /\ a_sent' = Append(a_sent, "GET /self")
    /\ \E answer \in SessionAnswers :
         /\ a_last' = Did("_validate_auth", "GET /self", validate_auth(answer))
         /\ IF validate_auth(answer).kind = "raise"
            THEN /\ a_pc' = "failed"
                 /\ k_pc' = IF a_in.by = "client" THEN "failed" ELSE k_pc
            ELSE /\ a_pc' = "ready"
                 /\ UNCHANGED k_pc
    /\ UNCHANGED <<a_in, a_session, a_closes, k_owns, k_last, rvars, mvars, cvars, pvars, t_pc, lvars>>

\* with MistAuth(...) as auth: __enter__
Enter ==
    /\ a_pc = "ready"
    /\ a_in.by = "caller"
    /\ a_pc' = "block"
    /\ UNCHANGED <<a_in, a_session, a_closes, a_sent, a_last, k_pc, k_owns, k_last,
                   rvars, mvars, cvars, pvars, t_pc, lvars>>

\* auth.make_request(endpoint)
Request ==
    /\ a_pc \in {"ready", "block"}
    /\ a_session = "open"
    /\ Len(a_sent) <= MaxRequests
    /\ a_sent' = Append(a_sent, "GET endpoint")
    /\ \E answer \in SessionAnswers :
         a_last' = Did("make_request", answer, MistAuth_make_request(answer))
    /\ UNCHANGED <<a_pc, a_in, a_session, a_closes, k_pc, k_owns, k_last,
                   rvars, mvars, cvars, pvars, t_pc, lvars>>

\* MistAuth.close
Close(who) ==
    /\ a_session' = "closed"
    /\ a_closes' = Append(a_closes, who)

WAYS_OUT == {"normal", "Exception", "KeyboardInterrupt"}

\* __exit__ that closes the session only when the block ended normally
LeaveBlock_NormalOnly ==
    /\ a_pc = "block"
    /\ \E how \in WAYS_OUT :
         /\ a_last' = Did("__exit__", how, Returns("None"))
         /\ IF how = "normal"
            THEN Close("MistAuth.__exit__")
            ELSE UNCHANGED <<a_session, a_closes>>
    /\ a_pc' = "left"
    /\ UNCHANGED <<a_in, a_sent, k_pc, k_owns, k_last, rvars, mvars, cvars, pvars, t_pc, lvars>>

\* the with-block is left, normally or by an exception: __exit__
LeaveBlock ==
    /\ a_pc = "block"
    /\ \E how \in WAYS_OUT :
         a_last' = Did("__exit__", how, Returns("None"))
    /\ Close("MistAuth.__exit__")
    /\ a_pc' = "left"
    /\ UNCHANGED <<a_in, a_sent, k_pc, k_owns, k_last, rvars, mvars, cvars, pvars, t_pc, lvars>>

----------------------------------------------------------------------------
(* MistNetworkClient *)

MaxFetched == 2

owns_auth_Always(by) == TRUE

\* self._owns_auth: whether __init__ constructed the MistAuth itself
owns_auth(by) == by = "client"

\* MistNetworkClient.__init__: an auth the caller passes, an auth constructed
\* from the config, or ValueError when it is given neither
ClientInit ==
    /\ k_pc = "new"
    /\ IF a_in.by = "nobody"
       THEN /\ k_pc' = "failed"
            /\ k_last' = Did("MistNetworkClient", "nobody",
                    Raises("ValueError", <<"Either config or auth must be provided">>, 0))
            /\ UNCHANGED k_owns
       ELSE /\ a_pc \in {"ready", "block"}
            /\ a_in.by # "troubleshooter" /\ t_pc = "new"   \* one wrapper around an auth
            /\ k_owns' = owns_auth(a_in.by)
            /\ k_pc' = "ready"
            /\ UNCHANGED k_last
    /\ UNCHANGED <<a_pc, a_in, a_session, a_closes, a_sent, a_last, rvars, mvars, cvars, pvars, t_pc, lvars>>

\* with MistNetworkClient(...) as client: __enter__
ClientEnter ==
    /\ k_pc = "ready"
    /\ k_pc' = "block"
    /\ UNCHANGED <<a_pc, a_in, a_session, a_closes, a_sent, a_last, k_owns, k_last,
                   rvars, mvars, cvars, pvars, t_pc, lvars>>

\* MistNetworkClient.__exit__
ClientExit ==
    /\ k_pc = "block"
    /\ k_pc' = "left"
    /\ IF k_owns
       THEN Close("MistNetworkClient.__exit__")
       ELSE UNCHANGED <<a_session, a_closes>>
    /\ UNCHANGED <<a_pc, a_in, a_sent, a_last, k_owns, k_last, rvars, mvars, cvars, pvars, t_pc, lvars>>

\* the attributes and methods of a MistAuth object
MIST_AUTH_ATTRIBUTES ==
    {"api_token", "base_url", "org_id", "timeout", "max_retries", "backoff_factor",
     "rate_limit_remaining", "rate_limit_reset", "last_request_time", "session",
     "_create_session", "_validate_auth", "_update_rate_limit_info",
     "_check_rate_limit", "make_request", "get_organizations",
     "get_organization_info", "test_connection", "close", "__enter__", "__exit__"}

\* MistAuth.test_connection: every exception is turned into a status
test_connection(self_ok) == IF self_ok THEN "connected" ELSE "error"

\* get_sites and get_devices: the listing of the mistapi library, None when
\* it raised, is handed to self.auth._get_mistapi_response_data; whatever is
\* raised is logged and raised again
Fetch(listing) ==
    IF listing = None
    THEN Raises("Exception", <<"listing failed">>, 0)
    ELSE IF "_get_mistapi_response_data" \notin MIST_AUTH_ATTRIBUTES
    THEN Raises("AttributeError",
                <<"'MistAuth' object has no attribute '_get_mistapi_response_data'">>, 0)
    ELSE Returns(listing[1])

Healthy(connection, total_sites, total_devices) ==
    [status |-> "healthy", connection |-> connection, error |-> <<>>,
     total_sites |-> total_sites, total_devices |-> total_devices, timestamp |-> TRUE]

Unhealthy(error) ==
    [status |-> "unhealthy", connection |-> "none", error |-> error,
     total_sites |-> 0, total_devices |-> 0, timestamp |-> TRUE]

\* MistNetworkClient.health_check on what the Gateway answers: whether GET
\* /self succeeds, and the numbers of sites and of devices listed
health_check(gw) ==
    LET connection_status == test_connection(gw.self_ok)
        got_sites == Fetch(gw.sites)
        got_devices == Fetch(gw.devices)
    IN  IF got_sites.kind = "raise" THEN Returns(Unhealthy(got_sites.msg))
        ELSE IF got_devices.kind = "raise" THEN Returns(Unhealthy(got_devices.msg))
        ELSE Returns(Healthy(connection_status, got_sites.value, got_devices.value))

GatewayHealth ==
    [self_ok : BOOLEAN, sites : Opt(1 .. MaxFetched), devices : Opt(1 .. MaxFetched)]

HealthCheck ==
    /\ k_pc \in {"ready", "block"}
    /\ a_session = "open"
    /\ Len(a_sent) <= MaxRequests
    /\ a_sent' = Append(a_sent, "GET /self")
    /\ \E gw \in GatewayHealth :
         k_last' = Did("health_check", gw, health_check(gw))
    /\ UNCHANGED <<a_pc, a_in, a_session, a_closes, a_last, k_pc, k_owns,
                   rvars, mvars, cvars, pvars, t_pc, lvars>>

\* MistWirelessTroubleshooter.__init__: the auth instance the caller passes,
\* or a MistAuth it constructs itself
TroubleshooterInit ==
    /\ t_pc = "new"
    /\ k_pc = "new"                                      \* one wrapper around an auth
    /\ a_in.by \in {"caller", "troubleshooter"}
    /\ IF a_pc = "failed"
       THEN a_in.by = "troubleshooter" /\ t_pc' = "failed"
       ELSE a_pc \in {"ready", "block"} /\ t_pc' = "ready"
    /\ UNCHANGED <<a_pc, a_in, a_session, a_closes, a_sent, a_last, k_pc, k_owns, k_last,
                   rvars, mvars, cvars, pvars, lvars>>

\* with MistWirelessTroubleshooter(...) as troubleshooter: __enter__
TroubleshooterEnter ==
    /\ t_pc = "ready"
    /\ t_pc' = "block"
    /\ UNCHANGED <<a_pc, a_in, a_session, a_closes, a_sent, a_last, k_pc, k_owns, k_last,
                   rvars, mvars, cvars, pvars, lvars>>

\* MistWirelessTroubleshooter.__exit__: close_logging, then self.auth.close()
TroubleshooterExit ==
    /\ t_pc = "block"
    /\ t_pc' = "left"
    /\ Close("MistWirelessTroubleshooter.__exit__")
    /\ UNCHANGED <<a_pc, a_in, a_sent, a_last, k_pc, k_owns, k_last,
                   rvars, mvars, cvars, pvars, lvars>>

AuthNext ==
    \/ Construct
    \/ ValidateAuth
    \/ Enter
    \/ Request
    \/ LeaveBlock
    \/ ClientInit
    \/ ClientEnter
    \/ HealthCheck
    \/ ClientExit
    \/ TroubleshooterInit
    \/ TroubleshooterEnter
    \/ TroubleshooterExit

SpecAuth == AuthInit /\ [][AuthNext]_vars

----------------------------------------------------------------------------
(* Properties of MistAuth and MistNetworkClient *)

NoToken == OrElse(a_in.arg, a_in.env) \in {"absent", "empty"}

\* C23: a MistAuth constructed with no API token, neither as an argument nor
\* in MIST_API_TOKEN, raises MistAuthError with a message that contains "API
\* token must be provided", before any session is created and before any
\* request is sent.
C23_NoTokenRaisesBeforeSession ==
    (NoToken /\ a_in.by # "nobody" /\ a_pc # "new") =>
        /\ a_pc = "failed"
        /\ a_last.op = "MistAuth"
        /\ a_last.result.kind = "raise"
        /\ a_last.result.type = "MistAuthError"
        /\ HasPhrase(a_last.result.msg, "API token must be provided")
        /\ a_session = "none"
        /\ a_sent = <<>>

C23_Witness ==
    /\ a_in.arg = "absent"
    /\ a_in.env = "absent"
    /\ a_pc = "failed"
    /\ a_last.op = "MistAuth"

\* C24: a MistAuth used as a context manager closes its HTTP session exactly
\* once when the with-block is left, whether normally or by an exception (a
\* user interruption included), and never before the block ends.
C24_SessionClosedOnceOnLeave ==
    /\ a_pc = "block" => Count(a_closes, "MistAuth.__exit__") = 0
    /\ (a_pc = "block" /\ t_pc # "left") => a_session = "open"
    /\ a_pc = "left" =>
        /\ a_session = "closed"
        /\ Count(a_closes, "MistAuth.__exit__") = 1

C24_Witness ==
    /\ a_pc = "left"
    /\ a_last.op = "__exit__"
    /\ a_last.given = "KeyboardInterrupt"
    /\ a_session = "closed"

\* C25: on context exit MistNetworkClient closes the auth session if and only
\* if the client created that auth itself: an auth that was passed in is never
\* closed by the client, an auth the client constructed is closed exactly
\* once.
C25_ClientClosesOnlyOwnAuth ==
    LET closed_by_client == Count(a_closes, "MistNetworkClient.__exit__") IN
    /\ a_in.by = "caller" => closed_by_client = 0
    /\ k_pc # "left" => closed_by_client = 0
    /\ (k_pc = "left" /\ a_in.by = "client") =>
            (closed_by_client = 1 /\ a_session = "closed")

C25_Witness ==
    /\ k_pc = "left"
    /\ a_in.by = "client"
    /\ a_closes = <<"MistNetworkClient.__exit__">>

\* the value of the Retry-After header of a response, 60 when it has none
RetryAfterOf(answer) ==
    IF answer.retry_after.form = "seconds" THEN answer.retry_after.n ELSE RETRY_AFTER_DEFAULT

RateLimited(result, answer) ==
    /\ result.kind = "raise"
    /\ result.type = "MistRateLimitError"
    /\ HasPhrase(result.msg, "Rate limit exceeded")
    /\ result.code = RetryAfterOf(answer)

\* C26: make_request raises MistRateLimitError, with a message that contains
\* "Rate limit exceeded" and retry_after taken from the Retry-After header
\* (60 when it is absent), whenever the response status is 429, and returns
\* the decoded JSON body unchanged on success.
C26_RateLimitAndJson ==
    (a_last.op = "make_request" /\ a_last.given.kind = "response") =>
        LET answer == a_last.given IN
        /\ answer.status = 429 => RateLimited(a_last.result, answer)
        /\ (answer.status = 200 /\ answer.body.json) =>
                a_last.result = Returns(answer.body.value)

\* the same, for responses whose Retry-After and X-RateLimit-Remaining
\* headers are absent or numbers
RateLimitOnNumericHeaders ==
    (/\ a_last.op = "make_request"
     /\ a_last.given.kind = "response"
     /\ a_last.given.retry_after.form \in {"absent", "seconds"}
     /\ a_last.given.remaining.form \in {"absent", "seconds"}) =>
        LET answer == a_last.given IN
        /\ answer.status = 429 => RateLimited(a_last.result, answer)
        /\ (answer.status = 200 /\ answer.body.json) =>
                a_last.result = Returns(answer.body.value)

\* C27: health_check never raises; when the connection test or a fetch
\* fails the report is unhealthy with an error text and a timestamp; when
\* the connection test, the site fetch and the device fetch all succeed it
\* is healthy with total_sites and total_devices equal to the numbers
\* fetched.
C27_HealthCheckReport ==
    k_last.op = "health_check" =>
        LET gw == k_last.given
            report == k_last.result.value
        IN  /\ k_last.result.kind = "return"
            /\ (~gw.self_ok \/ gw.sites = None \/ gw.devices = None) =>
                    /\ report.status = "unhealthy"
                    /\ report.error # <<>>
                    /\ report.timestamp
            /\ (gw.self_ok /\ gw.sites # None /\ gw.devices # None) =>
                    /\ report.status = "healthy"
                    /\ report.total_sites = gw.sites[1]
                    /\ report.total_devices = gw.devices[1]
                    /\ report.timestamp

\* health_check returns a report, and an unhealthy one carries an error text
HealthCheckReturns ==
    k_last.op = "health_check" =>
        /\ k_last.result.kind = "return"
        /\ k_last.result.value.status = "unhealthy" => k_last.result.value.error # <<>>

----------------------------------------------------------------------------
(* Properties of the AP-uptime check *)

\* the AP-stats response of this run carried an uptime of u seconds
StatsUptime(u) ==
    /\ pc = "done"
    /\ ap_stats # None
    /\ ap_stats[1].kind = "dict"
    /\ ap_stats[1].uptime = Some(u)

UptimeFlagged ==
    \E i \in 1 .. Len(results.issues_found) :
        /\ results.issues_found[i].kind = "metric"
        /\ results.issues_found[i].metric = "AP Uptime"

UptimeRule(u) ==
    /\ UptimeFlagged <=> (u < UPTIME_MIN_HOURS * SECONDS_PER_HOUR
                          \/ u > UPTIME_MAX_HOURS * SECONDS_PER_HOUR)
    /\ \A i \in 1 .. Len(uptime_issues) : uptime_issues[i].severity = "MEDIUM"

\* C31: for every AP-stats response that carries an uptime of u seconds, u =
\* 0 included, the health branch adds an AP Uptime Finding iff u is less than
\* 1 hour or more than 720 hours, always of severity MEDIUM; exactly 1 hour
\* and exactly 720 hours are not flagged.
C31_ApUptimeFinding ==
    \A u \in UptimesSeen : StatsUptime(u) => UptimeRule(u)

\* the same, for every uptime but 0
ApUptimeRuleAboveZero ==
    \A u \in UptimesSeen \ {0} : StatsUptime(u) => UptimeRule(u)

\* C32: whenever the AP-uptime check fetches the AP statistics, the key it
\* passes is the client record's AP device id and never the AP MAC address,
\* also for a client record that carries an AP MAC but no device id.
C32_ApStatsByDeviceId ==
    /\ ~Occurs(calls, "GET ap stats by ap_mac")
    /\ Occurs(calls, "check_ap_uptime") => Occurs(calls, "GET ap stats by ap_id")

----------------------------------------------------------------------------
(* Properties of the event analyzers *)

\* the words of a text, whatever their letter case
WordsOf(text) == {text[j].w : j \in DOMAIN text}

Stamps(fs) == [i \in DOMAIN fs |-> fs[i].ev]

\* the timestamps of the events of evs that satisfy Test, in input order
StampsWhere(evs, Test(_)) ==
    LET hit == SelectSeq(evs, Test) IN [i \in DOMAIN hit |-> hit[i].timestamp]

TypeHasAuthKeyword(event) == WordsOf(event.type) \cap AUTH_KEYWORDS # {}

HasDhcpDnsKeyword(event) ==
    (WordsOf(event.type) \cup WordsOf(event.text)) \cap DHCP_DNS_KEYWORDS # {}

\* C33: analyze_auth_issues returns exactly one Finding for each input event
\* whose type contains, in any letter case, one of the six authentication
\* keywords, in input order, and none for any other event; a keyword in the
\* free text only yields no Finding, and an empty or missing event list
\* yields an empty result.
C33_AuthFindingPerTypeMatch ==
    Occurs(calls, "analyze_auth_issues") =>
        /\ Stamps(auth_issues) = StampsWhere(EventList(events), TypeHasAuthKeyword)
        /\ \A i \in DOMAIN auth_issues : auth_issues[i].kind = "auth"

C33_Witness ==
    /\ Occurs(calls, "analyze_auth_issues")
    /\ Len(EventList(events)) = 2
    /\ EventList(events)[1].type = <<Up("client_"), Up("psk_failure")>>
    /\ EventList(events)[2].text = <<Lo("eap_failure")>>
    /\ Len(auth_issues) = 1
    /\ auth_issues[1].ev = 2

\* C34: analyze_dhcp_dns_issues returns exactly one Finding for each input
\* event whose type or free text contains, in any letter case, one of the
\* DHCP/DNS keywords, in input order, and none for any other event; whenever
\* that list is non-empty and the authentication list is empty, the
\* infrastructure reachability checks run exactly once and the run ends with
\* status network_infrastructure_issues.
C34_DhcpDnsFindingsAndInfra ==
    /\ Occurs(calls, "analyze_dhcp_dns_issues") =>
        /\ Stamps(dhcp_dns_issues) = StampsWhere(EventList(events), HasDhcpDnsKeyword)
        /\ \A i \in DOMAIN dhcp_dns_issues : dhcp_dns_issues[i].kind = "dhcp_dns"
    /\ (dhcp_dns_issues # <<>> /\ auth_issues = <<>>) =>
        /\ pc \in {"infra", "done"}
        /\ Count(calls, "check_network_infrastructure") = (IF pc = "done" THEN 1 ELSE 0)
        /\ pc = "done" => results.status = "network_infrastructure_issues"

C34_Witness ==
    /\ pc = "done"
    /\ Len(dhcp_dns_issues) = 2
    /\ dhcp_dns_issues[1].ev = 3
    /\ dhcp_dns_issues[2].ev = 4
    /\ Count(calls, "check_network_infrastructure") = 1
    /\ results.status = "network_infrastructure_issues"

----------------------------------------------------------------------------
(* Runs without a client IP *)

\* the status the three analyzers' results call for
StatusByAnalyzers ==
    IF auth_issues # <<>> THEN "authentication_issues"
    ELSE IF dhcp_dns_issues # <<>> THEN "network_infrastructure_issues"
    ELSE IF health_issues # <<>> THEN "client_health_issues"
    ELSE "all_good"

NoPingWithoutIp ==
    client_ip = UNKNOWN_IP =>
        (~Occurs(calls, "ping client") /\ ~Occurs(calls, "ping gateway"))

\* C35: when no client IP is supplied, no ping command is executed in the
\* run, neither the client ping of the health branch nor the gateway ping of
\* the infrastructure branch; the run still completes, and its status is
\* determined by the authentication, DHCP/DNS and health analyzers alone.
C35_NoIpNoPingStatusByAnalyzers ==
    client_ip = UNKNOWN_IP =>
        /\ ~Occurs(calls, "ping client")
        /\ ~Occurs(calls, "ping gateway")
        /\ (pc = "done" /\ Occurs(calls, "analyze_auth_issues")) =>
                results.status = StatusByAnalyzers

\* the same, for the runs that no exception ended
NoIpStatusOfCompletedRuns ==
    (client_ip = UNKNOWN_IP /\ ~exc) =>
        /\ ~Occurs(calls, "ping client")
        /\ ~Occurs(calls, "ping gateway")
        /\ (pc = "done" /\ Occurs(calls, "analyze_auth_issues")) =>
                results.status = StatusByAnalyzers

----------------------------------------------------------------------------
(* Termination and the number of Gateway requests *)

GATEWAY_FETCHES ==
    {"GET sites", "GET site clients", "GET devices", "GET clients search",
     "GET events", "GET events 5min", "GET ap stats by ap_id", "GET ap stats by ap_mac"}

STAGE_CALLS ==
    {"analyze_auth_issues", "analyze_dhcp_dns_issues", "check_network_infrastructure",
     "analyze_client_health", "analyze_disconnection_patterns",
     "check_client_connectivity_ping", "check_ap_uptime"}

GatewayRequests == Cardinality({i \in 1 .. Len(calls) : calls[i] \in GATEWAY_FETCHES})

\* how far the run has got: every step of a run moves it on
Position(at) ==
    CASE at = "sites" -> 1
      [] at = "site_clients" -> 2
      [] at \in {"ap_name", "historical"} -> 3
      [] at = "events" -> 4
      [] at = "auth" -> 5
      [] at = "dhcp" -> 6
      [] at \in {"infra", "health"} -> 7
      [] at = "disconnect" -> 8
      [] at = "ping" -> 9
      [] at = "ap_uptime" -> 10
      [] OTHER -> 11

SiteFetches == Count(calls, "GET site clients")

RunBounded ==
    /\ GatewayRequests <= SiteFetches + 5
    /\ \A f \in GATEWAY_FETCHES \ {"GET site clients"} : Count(calls, f) <= 1
    /\ \A st \in STAGE_CALLS : Count(calls, st) <= 1
    /\ pc = "done" => results.status \in TERMINAL_STATUSES
    /\ pc # "done" => ENABLED Next

\* every step moves the run on, and the live search fetches each site of the
\* list at most once
RunAdvances ==
    /\ \/ Position(pc') > Position(pc)
       \/ pc = "site_clients" /\ pc' = "site_clients" /\ site_idx' > site_idx
    /\ IF pc = "site_clients" THEN SiteFetches' <= Len(sites) ELSE SiteFetches' = SiteFetches

\* C37: every run of troubleshoot_client ends in a terminal status after a
\* bounded number of steps: for an organization with N sites it issues at
\* most N + 5 Gateway requests, each stage is executed at most once, and no
\* failed request is issued again.
C37_BoundedRun == [](RunBounded) /\ [][RunAdvances]_vars

C37_Witness ==
    /\ pc = "done"
    /\ SiteFetches = MaxSites
    /\ GatewayRequests = MaxSites + 5
    /\ last_fault # None

\* C38: a MistWirelessTroubleshooter constructed with an existing auth
\* instance leaves that instance's HTTP session open when the troubleshooter's
\* own context is exited; it closes an auth session only if it created the
\* MistAuth itself.
C38_TroubleshooterClosesOnlyOwnAuth ==
    /\ a_in.by = "caller" =>
            Count(a_closes, "MistWirelessTroubleshooter.__exit__") = 0
    /\ (t_pc = "left" /\ a_in.by = "troubleshooter") =>
            Count(a_closes, "MistWirelessTroubleshooter.__exit__") = 1

\* a troubleshooter closes the auth it constructed itself, once
TroubleshooterClosesOwnAuth ==
    /\ t_pc # "left" => Count(a_closes, "MistWirelessTroubleshooter.__exit__") = 0
    /\ t_pc = "left" =>
            (Count(a_closes, "MistWirelessTroubleshooter.__exit__") = 1
             /\ a_session = "closed")

----------------------------------------------------------------------------
(* The rate-limit bookkeeping of MistAuth *)

MaxNow == 2
MaxRateRequests == 2

RATE_LIMIT_LOW == 10

\* _update_rate_limit_info: the new values of rate_limit_remaining and
\* rate_limit_reset after a response with these two headers
update_rate_limit_info(remaining, reset, old_reset) ==
    [remaining |-> IntHeader(remaining, 0),
     reset |-> IF reset.form = "absent" THEN old_reset ELSE IntHeader(reset, 0)]

\* _check_rate_limit: whether it sleeps, at time t
check_rate_limit(remaining, reset, t) ==
    /\ remaining # None /\ remaining[1] < RATE_LIMIT_LOW
    /\ reset # None
    /\ reset[1] - t > 0

\* X-RateLimit-Remaining and X-RateLimit-Reset of a response
RemainingHeaders == Headers({"absent"}, {RATE_LIMIT_LOW - 1, RATE_LIMIT_LOW})

ResetHeaders == Headers({"absent"}, 0 .. (MaxNow + 1))

RateAnswer(remaining, reset) ==
    [kind |-> "response", status |-> 200, body |-> [json |-> TRUE, value |-> "dict"],
     retry_after |-> [form |-> "absent", n |-> 0], remaining |-> remaining,
     reset |-> reset]

\* a MistAuth right after its construction: _validate_auth has seen one response
RateInit ==
    /\ PairOff
    /\ RunOff
    /\ AnalyzersOff
    /\ CliOff
    /\ a_pc = "ready"
    /\ a_in = [arg |-> "token", env |-> "absent", by |-> "caller"]
    /\ a_session = "open"
    /\ a_closes = <<>>
    /\ a_sent = <<"GET /self">>
    /\ a_last = Did("_validate_auth", "GET /self", Returns("None"))
    /\ k_pc = "off"
    /\ k_owns = FALSE
    /\ k_last = NoOp
    /\ t_pc = "off"
    /\ now = 0
    /\ \E remaining \in RemainingHeaders, reset \in ResetHeaders :
         LET info == update_rate_limit_info(remaining, reset, None) IN
         /\ rate_limit_remaining = info.remaining
         /\ rate_limit_reset = info.reset
         /\ r_last = [NoDelay EXCEPT !.got = remaining]

\* time passes between two requests
Tick ==
    /\ now < MaxNow
    /\ now' = now + 1
    /\ UNCHANGED <<a_pc, a_in, a_session, a_closes, a_sent, a_last, k_pc, k_owns, k_last,
                   t_pc, rate_limit_remaining, rate_limit_reset, r_last,
                   rvars, mvars, cvars, pvars>>

\* make_request with its rate-limit bookkeeping: _check_rate_limit sleeps or
\* not, the request is sent, and a response updates the two fields
RateRequest ==
    /\ a_pc = "ready"
    /\ Len(a_sent) <= MaxRateRequests
    /\ a_sent' = Append(a_sent, "GET endpoint")
    /\ LET sleeps == check_rate_limit(rate_limit_remaining, rate_limit_reset, now)
           before == IF r_last.got = NoHeader THEN r_last.remaining ELSE r_last.got
           ahead == rate_limit_reset # None /\ rate_limit_reset[1] > now
       IN
       /\ now' = IF sleeps THEN rate_limit_reset[1] ELSE now
       /\ \/ \E remaining \in RemainingHeaders, reset \in ResetHeaders :
               LET answer == RateAnswer(remaining, reset)
                   info == update_rate_limit_info(remaining, reset, rate_limit_reset)
               IN
               /\ rate_limit_remaining' = info.remaining
               /\ rate_limit_reset' = info.reset
               /\ a_last' = Did("make_request", answer, MistAuth_make_request(answer))
               /\ r_last' = [delayed |-> sleeps, remaining |-> before,
                             reset_ahead |-> ahead, got |-> remaining]
          \/ /\ a_last' = Did("make_request", NoResponse("Timeout"),
                              MistAuth_make_request(NoResponse("Timeout")))
             /\ r_last' = [delayed |-> sleeps, remaining |-> before,
                           reset_ahead |-> ahead, got |-> NoHeader]
             /\ UNCHANGED <<rate_limit_remaining, rate_limit_reset>>
    /\ UNCHANGED <<a_pc, a_in, a_session, a_closes, k_pc, k_owns, k_last, t_pc,
                   rvars, mvars, cvars, pvars>>

RateNext == RateRequest \/ Tick

SpecRate == RateInit /\ [][RateNext]_vars

\* C39: make_request delays before sending only if the most recent response
\* explicitly reported an X-RateLimit-Remaining value below 10 and the
\* recorded reset time is still in the future; a response that lacks the
\* X-RateLimit-Remaining header never causes a later request to be delayed.
C39_DelayOnlyOnReportedLowRemaining ==
    /\ r_last.delayed =>
        /\ r_last.remaining.form = "seconds"
        /\ r_last.remaining.n < RATE_LIMIT_LOW
        /\ r_last.reset_ahead
    /\ r_last.remaining.form = "absent" => ~r_last.delayed

\* a request is delayed only with fewer than 10 requests remaining, the
\* missing header counting as 0, and a reset time in the future
DelayOnlyWhenLowAndAhead ==
    r_last.delayed =>
        /\ r_last.reset_ahead
        /\ IntHeader(r_last.remaining, 0)[1] < RATE_LIMIT_LOW

----------------------------------------------------------------------------
(* Two runs on one troubleshooter *)

\* the local variables of one invocation of troubleshoot_client and of the
\* methods it calls
Locals ==
    [pc |-> pc, client_ip |-> client_ip, client_mac |-> client_mac, sites |-> sites,
     site_idx |-> site_idx, client_info |-> client_info, events |-> events,
     auth_issues |-> auth_issues, dhcp_dns_issues |-> dhcp_dns_issues,
     health_issues |-> health_issues, all_issues |-> all_issues,
     ping_issues |-> ping_issues, infra_issues |-> infra_issues,
     disconnect_issues |-> disconnect_issues, uptime_issues |-> uptime_issues,
     ap_stats |-> ap_stats, live_site |-> live_site,
     results |-> results, exc |-> exc, calls |-> calls, last_fault |-> last_fault]

\* the steps a run had recorded when an exception ended it
StepsBeforeException(l) ==
    IF ~Occurs(l.calls, "GET events") THEN <<>>
    ELSE IF ~Occurs(l.calls, "analyze_auth_issues") THEN <<"client_association_check">>
    ELSE <<"client_association_check", "authentication_check", "dhcp_dns_check">>

\* the report a finished run returns when it runs alone, from the Gateway
\* and probe answers it has seen and what its analyzers made of them
AloneReport(l) ==
    LET auth == analyze_auth_issues(EventList(l.events))
        dhcp_dns == analyze_dhcp_dns_issues(EventList(l.events))
        health == analyze_client_health(l.client_info[1])
    IN
    IF l.exc
    THEN [steps_completed |-> StepsBeforeException(l), issues_found |-> <<ErrorFinding>>,
          recommendations |-> <<>>, escalation_path |-> "None", status |-> "error"]
    ELSE IF l.client_info = None \/ l.client_info[1] = EmptyClient
    THEN [steps_completed |-> <<>>, issues_found |-> <<>>,
          recommendations |-> NOT_FOUND_RECOMMENDATIONS,
          escalation_path |-> "None", status |-> "error"]
    ELSE IF auth # <<>>
    THEN [steps_completed |-> <<"client_association_check", "authentication_check">>,
          issues_found |-> auth, recommendations |-> AUTH_RECOMMENDATIONS,
          escalation_path |-> "troubleshoot_on_ise", status |-> "authentication_issues"]
    ELSE IF dhcp_dns # <<>>
    THEN [steps_completed |-> <<"client_association_check", "authentication_check",
                                "dhcp_dns_check", "infrastructure_check">>,
          issues_found |-> dhcp_dns \o l.infra_issues,
          recommendations |-> INFRA_RECOMMENDATIONS,
          escalation_path |-> "check_lan_wan_dhcp_dns",
          status |-> "network_infrastructure_issues"]
    ELSE IF health # <<>>
    THEN [steps_completed |-> <<"client_association_check", "authentication_check",
                                "dhcp_dns_check", "health_check",
                                "disconnection_analysis", "ping_check", "ap_uptime_check">>,
          issues_found |-> health \o l.disconnect_issues
                           \o l.ping_issues \o l.uptime_issues,
          recommendations |-> HealthRecommendations(l.client_info[1], l.ping_issues),
          escalation_path |-> "manual_troubleshooting", status |-> "client_health_issues"]
    ELSE [steps_completed |-> <<"client_association_check", "authentication_check",
                                "dhcp_dns_check", "health_check", "all_checks_complete">>,
          issues_found |-> <<>>, recommendations |-> ALL_GOOD_RECOMMENDATIONS,
          escalation_path |-> "manual_steps_if_needed", status |-> "all_good"]

\* a run on its own returns AloneReport
ReportOfRunAlone == pc = "done" => results = AloneReport(Locals)

MaxSwitches == 2       \* execution passes between the two runs at most MaxSwitches times

\* the local variables of a run at its first statement
FirstLocals(ip) ==
    [pc |-> "sites", client_ip |-> ip, client_mac |-> Mac(HEX_A, ":", FALSE),
     sites |-> <<>>, site_idx |-> 1, client_info |-> None, events |-> NoEvents,
     auth_issues |-> <<>>, dhcp_dns_issues |-> <<>>, health_issues |-> <<>>,
     all_issues |-> <<>>, ping_issues |-> <<>>, infra_issues |-> <<>>,
     disconnect_issues |-> <<>>, uptime_issues |-> <<>>, ap_stats |-> None,
     live_site |-> 0, results |-> InitialResults, exc |-> FALSE,
     calls |-> <<>>, last_fault |-> None]

\* results = {...} at the head of troubleshoot_client binds a local name:
\* the run that resumes finds its own dict, whatever the other run did to its
\* own in the meantime
\* the report kept on the troubleshooter, one dict for both runs
OwnResults_OnSelf(mine, others) == others

OwnResults(mine, others) == mine

\* the Gateway and probe answers the two interleaved runs are given: an
\* organization of one site, a Gateway that answers or is rate-limited, one
\* event at most in the window, a client with a strong or a weak signal
PairScenario ==
    /\ Len(sites) <= 1
    /\ last_fault = None \/ last_fault[1].kind = "rate_limit"
    /\ events = NoEvents
       \/ /\ Len(events.results) <= 1
          /\ \A i \in 1 .. Len(events.results) : events.results[i].timestamp \in {1, 3}
    /\ client_info = None
       \/ client_info[1] = EmptyClient
       \/ /\ client_info[1].rssi \in {Some(-60), Some(-85)}
          /\ client_info[1].site_id # None
    /\ Len(infra_issues) <= 1
    /\ disconnect_issues = <<>>
    /\ ap_stats \in {None, Some(NoStats), Some([kind |-> "dict", uptime |-> Some(1800)])}

\* two calls of troubleshoot_client on one troubleshooter, the first one
\* executing
PairInit ==
    /\ pc = "sites"
    /\ client_ip = KNOWN_IP
    /\ client_mac = Mac(HEX_A, ":", FALSE)
    /\ sites = <<>>
    /\ site_idx = 1
    /\ client_info = None
    /\ events = NoEvents
    /\ auth_issues = <<>>
    /\ dhcp_dns_issues = <<>>
    /\ health_issues = <<>>
    /\ all_issues = <<>>
    /\ ping_issues = <<>>
    /\ infra_issues = <<>>
    /\ disconnect_issues = <<>>
    /\ uptime_issues = <<>>
    /\ ap_stats = None
    /\ live_site = 0
    /\ results = InitialResults
    /\ exc = FALSE
    /\ calls = <<>>
    /\ last_fault = None
    /\ AnalyzersOff
    /\ CliOff
    /\ AuthOff
    /\ turn = 1
    /\ parked = FirstLocals(UNKNOWN_IP)
    /\ switches = 0

\* the executing run takes its next step
PairStep ==
    /\ turn # 0
    /\ Next
    /\ PairScenario'

\* execution passes to the other run: its frame comes back as it was left
Switch ==
    /\ turn # 0
    /\ parked.pc # "done"
    /\ switches < MaxSwitches
    /\ turn' = 3 - turn
    /\ switches' = switches + 1
    /\ parked' = Locals
    /\ pc' = parked.pc
    /\ client_ip' = parked.client_ip
    /\ client_mac' = parked.client_mac
    /\ sites' = parked.sites
    /\ site_idx' = parked.site_idx
    /\ client_info' = parked.client_info
    /\ events' = parked.events
    /\ auth_issues' = parked.auth_issues
    /\ dhcp_dns_issues' = parked.dhcp_dns_issues
    /\ health_issues' = parked.health_issues
    /\ all_issues' = parked.all_issues
    /\ ping_issues' = parked.ping_issues
    /\ infra_issues' = parked.infra_issues
    /\ disconnect_issues' = parked.disconnect_issues
    /\ uptime_issues' = parked.uptime_issues
    /\ ap_stats' = parked.ap_stats
    /\ live_site' = parked.live_site
    /\ results' = OwnResults(parked.results, results)
    /\ exc' = parked.exc
    /\ calls' = parked.calls
    /\ last_fault' = parked.last_fault
    /\ UNCHANGED <<mvars, cvars, avars>>

PairNext == PairStep \/ Switch

SpecPair == PairInit /\ [][PairNext]_vars

\* C36: two runs interleaved at any stage boundary on one troubleshooter
\* share neither Findings nor report state: each finished run's report is the
\* report it would return alone on the Gateway and probe answers it was given
C36_InterleavedRunsReportAlone ==
    turn # 0 =>
        /\ pc = "done" => results = AloneReport(Locals)
        /\ parked.pc = "done" => parked.results = AloneReport(parked)

\* both runs are finished, each was interrupted by the other, and they end in
\* different branches
C36_Witness ==
    /\ turn # 0
    /\ switches = MaxSwitches
    /\ pc = "done"
    /\ parked.pc = "done"
    /\ results.status = "authentication_issues"
    /\ parked.results.status = "client_health_issues"

====
